---------------------------- MODULE Spec2Model ----------------------------
(***************************************************************************)
(* A model of the Apex decompiler core:                                    *)
(*   - AdvancedBytecodeAnalyzer (src/src/advanced/bytecode_analysis.py),   *)
(*   - ApexDecompiler           (src/src/core/decompiler_engine.py),       *)
(*   - OptimizedDecompiler      (src/src/performance/optimizations.py).    *)
(* Python dicts are functions whose DOMAIN is the key set, Python lists    *)
(* are sequences, program counters and block ids are 0-based as in the     *)
(* source (instruction pc is element pc+1 of the sequence).                *)
(***************************************************************************)
EXTENDS Integers, Sequences, FiniteSets, TLC

VARIABLES
    \* ---- AdvancedBytecodeAnalyzer (one instance) ----
    basic_blocks,        \* self.basic_blocks : block id -> BasicBlock
    cfg_edges,           \* self.cfg_edges    : block id -> list of block ids
    dominance_tree,      \* self.dominance_tree : block id -> block id
    loops,               \* self.loops : list of LoopInfo
    data_flow,           \* self.data_flow : block id -> DataFlowInfo
    optimization_level,  \* self.optimization_level
    an_function,         \* the function of the latest analyze_function call
    an_calls,            \* number of analyze_function calls made so far
    an_phase,            \* where the analyze_function call is: "idle",
                         \* in the while loop of "dominance", in the for
                         \* loop of "loops", in the while loop of
                         \* "liveness", or "returned"
    an_ids,              \* what the running for loop has still to visit
    an_changed           \* the local variable changed of the while loops

anVars == <<basic_blocks, cfg_edges, dominance_tree, loops, data_flow,
            optimization_level, an_function, an_calls, an_phase, an_ids,
            an_changed>>

VARIABLES
    \* ---- ApexDecompiler (one instance) ----
    variable_map,        \* self.variable_recovery.variable_map : register -> name
    type_inference,      \* self.variable_recovery.type_inference : register -> type
    cfg,                 \* self.cfg : ControlFlowGraph (nodes, edges)
    deobfuscation_stats, \* self.deobfuscation_stats
    dec_bytecode,        \* the buffer of the latest decompile_bytecode call
    dec_source,          \* what that call returned
    dec_calls            \* number of decompile_bytecode calls made

decVars == <<variable_map, type_inference, cfg, deobfuscation_stats,
             dec_bytecode, dec_source, dec_calls>>

VARIABLES
    \* ---- OptimizedDecompiler.batch_decompile (one call) ----
    bytecode_files,      \* the list of buffers of the call
    chunks,              \* the chunks submitted to the executor, and how
                         \* far the worker of each has come
    results,             \* results of parallel_map : index -> text
    parse_function_cache,        \* cache_manager.caches["parse_function"]
    instruction_to_source_cache  \* cache_manager.caches["instruction_to_source"]

batchVars == <<bytecode_files, chunks, results, parse_function_cache,
               instruction_to_source_cache>>

VARIABLES
    \* ---- CacheManager: one cache made by cached_function ----
    cm_cache,            \* self.caches[cache_name]: the entries of the dict in
                         \* the order of their insertion, each with its key,
                         \* its value and the number of the call that put it
    cm_max_size,         \* the max_size given to cached_function
    hit_counts,          \* self.hit_counts[cache_name]
    miss_counts,         \* self.miss_counts[cache_name]
    \* ---- ParallelProcessor.parallel_map (one call) ----
    pm_items,            \* items
    pm_chunk_size,       \* chunk_size; 0 stands for None
    pm_futures,          \* futures: start index -> the future of the chunk
    pm_results,          \* results: index -> value, None written NoResult
    pm_pc,               \* the caller: at the "call", collecting the
                         \* futures ("collect"), or "returned"
    pm_overtaken         \* history: a chunk was finished while a chunk
                         \* submitted before it was not

perfVars == <<cm_cache, cm_max_size, hit_counts, miss_counts,
              pm_items, pm_chunk_size, pm_futures, pm_results, pm_pc,
              pm_overtaken>>

vars == <<anVars, decVars, batchVars, perfVars>>

-----------------------------------------------------------------------------
(* Bounds of the model.                                                    *)

\* longest instruction list handed to the analyzer
MaxInstr == 3
\* analyze_function calls made on one analyzer instance
MaxCalls == 2

-----------------------------------------------------------------------------
(* Generic helpers for dicts, sets and lists.                              *)

\* "no block": the None returned by _find_block_by_pc
NoBlock == -1

\* d[k] = v on a dict
Put(f, k, v) == [x \in DOMAIN f \cup {k} |-> IF x = k THEN v ELSE f[x]]

Max(S) == CHOOSE x \in S : \A y \in S : y <= x
Min(S) == CHOOSE x \in S : \A y \in S : x <= y

\* sorted(S) for a finite set of integers
RECURSIVE Sorted(_)
Sorted(S) == IF S = {} THEN <<>> ELSE <<Min(S)>> \o Sorted(S \ {Min(S)})

\* reversed(list)
Reversed(s) == [i \in 1..Len(s) |-> s[Len(s) + 1 - i]]

\* the elements of a list
Range(s) == {s[i] : i \in 1..Len(s)}

\* instructions[start:end+1] with 0-based inclusive bounds
Slice(s, start, end) ==
    IF end < start THEN <<>>
    ELSE [i \in 1..(end - start + 1) |-> s[start + i]]

-----------------------------------------------------------------------------
(* Instructions as the analyzer sees them: any object with .opcode.name    *)
(* and the operand fields a, b, c, d.                                      *)

Instr(op, a, b, c, d) == [opcode |-> op, a |-> a, b |-> b, c |-> c, d |-> d]

\* 'JUMP' in opcode.name, over the opcode names of the model
ContainsJUMP(name) == name \in {"JUMP", "JUMPIF"}
\* 'IF' in opcode.name
ContainsIF(name) == name \in {"JUMPIF"}
\* 'FORN' in opcode.name
ContainsFORN(name) == name \in {"FORNPREP"}
\* 'FORG' in opcode.name
ContainsFORG(name) == name \in {"FORGLOOP"}

-----------------------------------------------------------------------------
(* AdvancedBytecodeAnalyzer._build_cfg                                     *)

\* the leader set of lines 96-112
Leaders(instructions) ==
    LET N == Len(instructions)
        at(i) == instructions[i + 1]
        jmps == {i \in 0..(N - 1) : at(i).opcode = "JMP"}
        brk  == {i \in 0..(N - 1) : at(i).opcode \in {"JMP", "CALL", "RETURN"}}
    IN  {0}
        \cup {i + at(i).d + 1 : i \in {j \in jmps : /\ 0 <= j + at(j).d + 1
                                                   /\ j + at(j).d + 1 < N}}
        \cup {i + 1 : i \in {j \in brk : j + 1 < N}}

\* BasicBlock(id, start_pc, end_pc, instructions) with empty default sets
BasicBlock(id, start, end, instrs) ==
    [id |-> id, start_pc |-> start, end_pc |-> end, instructions |-> instrs,
     predecessors |-> {}, successors |-> {}, dominators |-> {}]

\* a block end that reaches the next leader itself
BlockEndAtNextLeader(leaders_list, i, N) ==
    IF i + 1 <= Len(leaders_list) THEN leaders_list[i + 1] ELSE N - 1

\* inclusive end of the block that starts at leaders_list[i]
BlockEnd(leaders_list, i, N) ==
    IF i + 1 <= Len(leaders_list) THEN leaders_list[i + 1] - 1 ELSE N - 1

\* lines 114-132: blocks 0..k-1 are stored over whatever the dict holds
CreateBlocks(bb, instructions) ==
    LET leaders_list == Sorted(Leaders(instructions))
        k == Len(leaders_list)
        N == Len(instructions)
    IN  [id \in DOMAIN bb \cup 0..(k - 1) |->
            IF id < k
            THEN BasicBlock(id, leaders_list[id + 1],
                            BlockEnd(leaders_list, id + 1, N),
                            Slice(instructions, leaders_list[id + 1],
                                  BlockEnd(leaders_list, id + 1, N)))
            ELSE bb[id]]

\* _find_block_by_pc: the first block, in dict order, whose range holds pc
find_block_by_pc(bb, pc) ==
    LET hits == {id \in DOMAIN bb : bb[id].start_pc <= pc /\ pc <= bb[id].end_pc}
    IN  IF hits = {} THEN NoBlock ELSE Min(hits)

\* a list holding t unless t is None
Found(t) == IF t = NoBlock THEN <<>> ELSE <<t>>

\* the targets _build_cfg_edges appends for one block, in order
EdgeTargets(bb, id) ==
    LET block == bb[id]
        last_instr == block.instructions[Len(block.instructions)]
    IN  IF block.instructions = <<>> THEN <<>>
        ELSE IF ContainsJUMP(last_instr.opcode)
        THEN Found(find_block_by_pc(bb, block.end_pc + last_instr.d + 1))
             \o (IF ContainsIF(last_instr.opcode)
                 THEN Found(find_block_by_pc(bb, block.end_pc + 1))
                 ELSE <<>>)
        ELSE IF last_instr.opcode # "RETURN"
        THEN Found(find_block_by_pc(bb, block.end_pc + 1))
        ELSE <<>>

\* _build_cfg_edges: every block of the dict adds its targets to its own
\* successors, itself to the targets' predecessors, and the targets to
\* self.cfg_edges[block_id]; sets and lists are added to, never reset
build_cfg_edges(bb, edges) ==
    LET T(id) == EdgeTargets(bb, id)
        nbb == [id \in DOMAIN bb |->
                  [bb[id] EXCEPT
                     !.successors = @ \cup Range(T(id)),
                     !.predecessors =
                         @ \cup {p \in DOMAIN bb : id \in Range(T(p))}]]
        keys == DOMAIN edges \cup {id \in DOMAIN bb : T(id) # <<>>}
        nedges == [id \in keys |->
                     (IF id \in DOMAIN edges THEN edges[id] ELSE <<>>)
                     \o (IF id \in DOMAIN bb THEN T(id) ELSE <<>>)]
    IN  [basic_blocks |-> nbb, cfg_edges |-> nedges]

\* _build_cfg
build_cfg(bb, edges, function) ==
    build_cfg_edges(CreateBlocks(bb, function.instructions), edges)

-----------------------------------------------------------------------------
(* AdvancedBytecodeAnalyzer._compute_dominance                             *)

\* the dominators of any one predecessor, where lines 206-208 keep those
\* of all predecessors
NewDominatorsOfAny(bb, dom, block_id) ==
    {x \in DOMAIN bb : \/ bb[block_id].predecessors = {}
                       \/ \E pred_id \in bb[block_id].predecessors : x \in dom[pred_id]}
    \cup {block_id}

\* the intersection of lines 206-208, then "add self"
NewDominators(bb, dom, block_id) ==
    {x \in DOMAIN bb : \A pred_id \in bb[block_id].predecessors : x \in dom[pred_id]}
    \cup {block_id}

\* one run of the for loop of lines 199-215 over the block ids still to be
\* visited; the sets are updated in place, so later blocks of the same pass
\* see the new sets of earlier ones
RECURSIVE DominancePass(_, _, _, _)
DominancePass(bb, dom, ids, changed) ==
    IF ids = <<>> THEN [dom |-> dom, changed |-> changed]
    ELSE LET block_id == Head(ids)
             new_dominators == NewDominators(bb, dom, block_id)
         IN  IF block_id = 0
             THEN DominancePass(bb, dom, Tail(ids), changed)
             ELSE IF new_dominators # dom[block_id]
             THEN DominancePass(bb, [dom EXCEPT ![block_id] = new_dominators],
                                Tail(ids), TRUE)
             ELSE DominancePass(bb, dom, Tail(ids), changed)

\* the while loop of lines 195-215
RECURSIVE DominanceLoop(_, _)
DominanceLoop(bb, dom) ==
    LET r == DominancePass(bb, dom, Sorted(DOMAIN bb), FALSE)
    IN  IF r.changed THEN DominanceLoop(bb, r.dom) ELSE r.dom

\* lines 187-192: the sets the iteration starts from
InitialDominators(bb) == [id \in DOMAIN bb |-> IF id = 0 THEN {0} ELSE DOMAIN bb]

\* dominator sets computed from a start in which the entry block, too, is
\* dominated by all blocks
DominatorsFromAll(bb) == DominanceLoop(bb, [id \in DOMAIN bb |-> DOMAIN bb])

\* lines 183-215: the dominator sets of all blocks of the dict
Dominators(bb) == DominanceLoop(bb, InitialDominators(bb))

\* lines 218-227: the dominator, other than the block itself, with the fewest
\* dominators of its own; the first such one in iteration order wins
ImmediateDominator(bb, block_id) ==
    LET cands == bb[block_id].dominators \ {block_id}
        size(d) == Cardinality(bb[d].dominators)
        best == {d \in cands : /\ size(d) < Cardinality(DOMAIN bb) + 1
                               /\ \A e \in cands : size(d) <= size(e)}
    IN  IF best = {} THEN NoBlock ELSE Min(best)

\* the blocks with their dominator sets stored in them
WithDominators(bb, dom) ==
    [id \in DOMAIN bb |-> [bb[id] EXCEPT !.dominators = dom[id]]]

\* lines 218-230: the tree gets an entry for every block that has an
\* immediate dominator; other entries stay as they are
DominanceTree(nbb, tree) ==
    LET set == {id \in DOMAIN nbb : ImmediateDominator(nbb, id) # NoBlock}
    IN  [id \in DOMAIN tree \cup set |->
            IF id \in set THEN ImmediateDominator(nbb, id) ELSE tree[id]]

\* _compute_dominance; bb is never empty after _build_cfg
compute_dominance(bb, tree) ==
    [basic_blocks |-> WithDominators(bb, Dominators(bb)),
     dominance_tree |-> DominanceTree(WithDominators(bb, Dominators(bb)), tree)]

-----------------------------------------------------------------------------
(* AdvancedBytecodeAnalyzer._detect_loops                                  *)

\* lines 237-241: edges into a dominator, in block order then successor order
RECURSIVE BackEdgesFrom(_, _)
BackEdgesFrom(bb, ids) ==
    IF ids = <<>> THEN <<>>
    ELSE LET block_id == Head(ids)
             heads == Sorted(bb[block_id].successors \cap bb[block_id].dominators)
         IN  [i \in 1..Len(heads) |-> <<block_id, heads[i]>>]
             \o BackEdgesFrom(bb, Tail(ids))

BackEdges(bb) == BackEdgesFrom(bb, Sorted(DOMAIN bb))

\* the worklist loop of lines 268-274
RECURSIVE NaturalLoop(_, _, _)
NaturalLoop(bb, loop_body, worklist) ==
    IF worklist = <<>> THEN loop_body
    ELSE LET current == Head(worklist)
             new == Sorted(bb[current].predecessors \ loop_body)
         IN  NaturalLoop(bb, loop_body \cup Range(new), Tail(worklist) \o new)

\* a loop body that is the two ends of the back edge and nothing else
BackEdgeEnds(bb, tail, head) == {head, tail}

\* _find_natural_loop
find_natural_loop(bb, tail, head) == NaturalLoop(bb, {head, tail}, <<tail>>)

\* _classify_loop_type
classify_loop_type(bb, header, body) ==
    LET instrs == bb[header].instructions
        marks == {i \in 1..Len(instrs) :
                    ContainsFORN(instrs[i].opcode) \/ ContainsFORG(instrs[i].opcode)}
    IN  IF marks # {}
        THEN (IF ContainsFORN(instrs[Min(marks)].opcode)
              THEN "for_numeric" ELSE "for_generic")
        ELSE IF Cardinality(bb[header].predecessors) > 1 THEN "while"
        ELSE "repeat"

\* _calculate_nesting_level, over the loops found so far
calculate_nesting_level(found, block_id) ==
    Cardinality({i \in 1..Len(found) :
                    block_id \in found[i].body /\ found[i].header # block_id})

\* _find_loop_exits
find_loop_exits(bb, loop_body) ==
    {block_id \in loop_body : bb[block_id].successors \ loop_body # {}}

\* LoopInfo built for one back edge (lines 245-259)
LoopInfo(bb, found, tail, head) ==
    LET loop_body == find_natural_loop(bb, tail, head)
    IN  [header |-> head,
         body |-> loop_body,
         exits |-> find_loop_exits(bb, loop_body),
         loop_type |-> classify_loop_type(bb, head, loop_body),
         nesting_level |-> calculate_nesting_level(found, head)]

RECURSIVE LoopsFrom(_, _, _)
LoopsFrom(bb, found, back_edges) ==
    IF back_edges = <<>> THEN found
    ELSE LoopsFrom(bb,
                   Append(found, LoopInfo(bb, found, Head(back_edges)[1],
                                          Head(back_edges)[2])),
                   Tail(back_edges))

\* _detect_loops: self.loops starts from the empty list on every call
detect_loops(bb) == LoopsFrom(bb, <<>>, BackEdges(bb))

-----------------------------------------------------------------------------
(* AdvancedBytecodeAnalyzer._analyze_data_flow and _compute_liveness       *)

\* register -> set of definition points of one block (lines 331-335)
Definitions(block) ==
    LET instrs == block.instructions
        defs == {i \in 1..Len(instrs) : instrs[i].opcode \notin {"JMP", "RETURN"}}
    IN  [reg \in {instrs[i].a : i \in defs} |->
            {block.start_pc + (i - 1) : i \in {j \in defs : instrs[j].a = reg}}]

\* register -> set of use points of one block (lines 338-342)
Uses(block) ==
    LET instrs == block.instructions
        useB == {i \in 1..Len(instrs) : instrs[i].opcode # "LOADK"}
        useC == {i \in 1..Len(instrs) : instrs[i].opcode \in {"GETTABLE", "SETTABLE"}}
    IN  [reg \in {instrs[i].b : i \in useB} \cup {instrs[i].c : i \in useC} |->
            {block.start_pc + (i - 1) :
                i \in {j \in useB : instrs[j].b = reg}
                      \cup {j \in useC : instrs[j].c = reg}}]

\* DataFlowInfo of a block before liveness is computed (lines 323-344)
DataFlowInfo(block) ==
    [definitions |-> Definitions(block), uses |-> Uses(block),
     live_in |-> {}, live_out |-> {}]

\* liveness of one block in which the registers the block defines stay live
LivenessKeepingDefs(bb, df, block_id) ==
    LET live_out == UNION {df[succ_id].live_in : succ_id \in bb[block_id].successors}
        all_uses == {reg \in DOMAIN df[block_id].uses : df[block_id].uses[reg] # {}}
    IN  [df[block_id] EXCEPT !.live_out = live_out,
                             !.live_in = all_uses \cup live_out]

\* a live_in set that differs from the one before at every visit of the block
LivenessFlipping(bb, df, block_id) ==
    [df[block_id] EXCEPT !.live_in = IF df[block_id].live_in = {} THEN {0} ELSE {}]

\* lines 360-377 for one block
LivenessOfBlock(bb, df, block_id) ==
    LET live_out == UNION {df[succ_id].live_in : succ_id \in bb[block_id].successors}
        all_defs == {reg \in DOMAIN df[block_id].definitions :
                        df[block_id].definitions[reg] # {}}
        all_uses == {reg \in DOMAIN df[block_id].uses : df[block_id].uses[reg] # {}}
    IN  [df[block_id] EXCEPT !.live_out = live_out,
                             !.live_in = all_uses \cup (live_out \ all_defs)]

\* one run of the for loop of lines 356-380, in place over reversed block ids
RECURSIVE LivenessPass(_, _, _, _)
LivenessPass(bb, df, ids, changed) ==
    IF ids = <<>> THEN [df |-> df, changed |-> changed]
    ELSE LET block_id == Head(ids)
             new == LivenessOfBlock(bb, df, block_id)
         IN  LivenessPass(bb, [df EXCEPT ![block_id] = new], Tail(ids),
                          changed \/ new.live_in # df[block_id].live_in)

\* the block order of line 356
LivenessOrder(bb) == Reversed(Sorted(DOMAIN bb))

\* liveness that stops after the first run of the for loop
LivenessOnePass(bb, df) == LivenessPass(bb, df, LivenessOrder(bb), FALSE).df

\* _compute_liveness
RECURSIVE compute_liveness(_, _)
compute_liveness(bb, df) ==
    LET r == LivenessPass(bb, df, LivenessOrder(bb), FALSE)
    IN  IF r.changed THEN compute_liveness(bb, r.df) ELSE r.df

\* lines 322-344: every block of the dict gets a new DataFlowInfo
InitialDataFlow(bb, df) ==
    [id \in DOMAIN df \cup DOMAIN bb |->
        IF id \in DOMAIN bb THEN DataFlowInfo(bb[id]) ELSE df[id]]

\* _analyze_data_flow
analyze_data_flow(bb, df) == compute_liveness(bb, InitialDataFlow(bb, df))

-----------------------------------------------------------------------------
(* AdvancedBytecodeAnalyzer._detect_optimization_level                     *)

\* _mark_reachable: the blocks reachable from block_id over successor edges
RECURSIVE mark_reachable(_, _, _)
mark_reachable(bb, todo, reachable) ==
    IF todo = {} THEN reachable
    ELSE LET new == (UNION {bb[b].successors : b \in todo} \cap DOMAIN bb)
                    \ (reachable \cup todo)
         IN  mark_reachable(bb, new, reachable \cup todo)

\* a score that leaves the unreachable blocks out of account
ScoreWithoutDeadCode(jumps, loads, total, dead, blocks) ==
    (IF 10 * jumps > 3 * total THEN 2
     ELSE IF 10 * jumps > total THEN 1 ELSE 0)
    + (IF 10 * loads > 5 * total THEN 1 ELSE 0)

\* lines 413-419; the ratios x/y > 0.3, 0.2, 0.1, 0.5 are compared as
\* fractions (10x > 3y, ...)
OptimizationScore(jumps, loads, total, dead, blocks) ==
    (IF 10 * jumps > 3 * total \/ 10 * dead > 2 * blocks
     THEN 2
     ELSE IF 10 * jumps > total THEN 1 ELSE 0)
    + (IF 10 * loads > 5 * total THEN 1 ELSE 0)

\* lines 422-429
LevelOfScore(score) ==
    IF score >= 3 THEN "OBFUSCATED"
    ELSE IF score >= 2 THEN "AGGRESSIVE"
    ELSE IF score >= 1 THEN "BASIC"
    ELSE "NONE"

\* _detect_optimization_level
detect_optimization_level(bb, function) ==
    LET instrs == function.instructions
        total_instructions == Len(instrs)
        jump_instructions ==
            Cardinality({i \in 1..Len(instrs) : instrs[i].opcode = "JMP"})
        constant_loads ==
            Cardinality({i \in 1..Len(instrs) : instrs[i].opcode \in {"LOADK", "LOADN"}})
        reachable == mark_reachable(bb, {0} \cap DOMAIN bb, {})
        dead_code_blocks == Cardinality(DOMAIN bb) - Cardinality(reachable)
    IN  IF total_instructions = 0 THEN "NONE"
        ELSE LevelOfScore(OptimizationScore(jump_instructions, constant_loads,
                                            total_instructions, dead_code_blocks,
                                            Cardinality(DOMAIN bb)))

-----------------------------------------------------------------------------
(* AdvancedBytecodeAnalyzer.__init__ and analyze_function                  *)

\* the fields of a new analyzer
FreshAnalyzer ==
    [basic_blocks |-> <<>>, cfg_edges |-> <<>>, dominance_tree |-> <<>>,
     loops |-> <<>>, data_flow |-> <<>>, optimization_level |-> "NONE"]

\* analyze_function on an analyzer whose fields are `self`: the fields after
\* the call (the returned dict holds these same objects)
analyze_function(self, function) ==
    LET built == build_cfg(self.basic_blocks, self.cfg_edges, function)
        dom == compute_dominance(built.basic_blocks, self.dominance_tree)
    IN  [basic_blocks |-> dom.basic_blocks,
         cfg_edges |-> built.cfg_edges,
         dominance_tree |-> dom.dominance_tree,
         loops |-> detect_loops(dom.basic_blocks),
         data_flow |-> analyze_data_flow(dom.basic_blocks, self.data_flow),
         optimization_level |-> detect_optimization_level(dom.basic_blocks, function)]

\* the analyzer of the model, as a record of its fields
Analyzer ==
    [basic_blocks |-> basic_blocks, cfg_edges |-> cfg_edges,
     dominance_tree |-> dominance_tree, loops |-> loops,
     data_flow |-> data_flow, optimization_level |-> optimization_level]

\* "no function analysed yet"
NoFunction == [instructions |-> <<>>, constants |-> <<>>, none |-> TRUE]

AnalyzerInit ==
    /\ basic_blocks = FreshAnalyzer.basic_blocks
    /\ cfg_edges = FreshAnalyzer.cfg_edges
    /\ dominance_tree = FreshAnalyzer.dominance_tree
    /\ loops = FreshAnalyzer.loops
    /\ data_flow = FreshAnalyzer.data_flow
    /\ optimization_level = FreshAnalyzer.optimization_level
    /\ an_function = NoFunction
    /\ an_calls = 0
    /\ an_phase = "idle"
    /\ an_ids = <<>>
    /\ an_changed = FALSE

\* one call analyzer.analyze_function(function)
AnalyzeFunction(function) ==
    LET r == analyze_function(Analyzer, function)
    IN  /\ basic_blocks' = r.basic_blocks
        /\ cfg_edges' = r.cfg_edges
        /\ dominance_tree' = r.dominance_tree
        /\ loops' = r.loops
        /\ data_flow' = r.data_flow
        /\ optimization_level' = r.optimization_level
        /\ an_function' = function
        /\ an_calls' = an_calls + 1
        /\ an_phase' = "returned"
        /\ UNCHANGED <<an_ids, an_changed, decVars, batchVars, perfVars>>

-----------------------------------------------------------------------------
(* Byte buffers (src/src/core/decompiler_engine.py).  A buffer is a        *)
(* sequence of bytes 0..255; offset o of the source is element o+1.        *)

\* bytecode[lo:hi], a Python slice: clamped to the buffer, never an error
PySlice(bytecode, lo, hi) ==
    LET end == IF hi < Len(bytecode) THEN hi ELSE Len(bytecode)
    IN  IF end <= lo THEN <<>> ELSE [i \in 1..(end - lo) |-> bytecode[lo + i]]

\* a raised exception, with the text of str(e)
Raise(e) == [ok |-> FALSE, error |-> e]

\* struct.unpack('<I', bytecode[offset:offset+4])[0]: little-endian, and
\* struct.error when the slice is shorter than 4 bytes
UnpackU32(bytecode, offset) ==
    IF offset + 4 <= Len(bytecode)
    THEN [ok |-> TRUE,
          value |-> bytecode[offset + 1] + 256 * bytecode[offset + 2]
                    + 65536 * bytecode[offset + 3] + 16777216 * bytecode[offset + 4]]
    ELSE Raise("unpack requires a buffer of 4 bytes")

\* bytecode[offset]: IndexError past the end
ByteAt(bytecode, offset) ==
    IF offset < Len(bytecode)
    THEN [ok |-> TRUE, value |-> bytecode[offset + 1]]
    ELSE Raise("index out of range")

\* the replacement character U+FFFD
ReplacementChar == 65533

\* bytes.decode('utf-8', errors='replace') as code points; bytes below 128
\* are themselves, any other byte is shown replaced (the buffers of the
\* model hold no multi-byte sequences)
DecodeReplace(bytes) ==
    [i \in 1..Len(bytes) |-> IF bytes[i] < 128 THEN bytes[i] ELSE ReplacementChar]

\* a length-prefixed string at offset (lines 291-298, 384-390, 418-425,
\* 433-438): the length, then length-1 bytes of text and one more byte;
\* the text is a slice, so a length that runs past the end raises nothing
ReadString(bytecode, offset) ==
    LET len == UnpackU32(bytecode, offset)
    IN  IF ~len.ok THEN len
        ELSE IF len.value > 0
        THEN [ok |-> TRUE, present |-> TRUE,
              text |-> DecodeReplace(PySlice(bytecode, offset + 4,
                                             offset + 4 + len.value - 1)),
              offset |-> offset + 4 + len.value]
        ELSE [ok |-> TRUE, present |-> FALSE, text |-> <<>>, offset |-> offset + 4]

-----------------------------------------------------------------------------
(* OpCode and Instruction                                                  *)

\* OpCode: names by number 0..37
OpCodeNames ==
    <<"MOVE", "LOADK", "LOADBOOL", "LOADNIL", "GETUPVAL", "GETGLOBAL",
      "GETTABLE", "SETGLOBAL", "SETUPVAL", "SETTABLE", "NEWTABLE", "SELF",
      "ADD", "SUB", "MUL", "DIV", "MOD", "POW", "UNM", "NOT", "LEN", "CONCAT",
      "JMP", "EQ", "LT", "LE", "TEST", "TESTSET", "CALL", "TAILCALL", "RETURN",
      "FORLOOP", "FORPREP", "TFORLOOP", "SETLIST", "CLOSE", "CLOSURE", "VARARG">>

\* the largest opcode number of the 5.1 table (line 335)
MaxOpcode == 37

\* OpCode(opcode_num), with MOVE for numbers that are no opcode (348-351)
OpCodeOf(opcode_num) ==
    IF opcode_num \in 0..(Len(OpCodeNames) - 1)
    THEN OpCodeNames[opcode_num + 1] ELSE "MOVE"

\* lines 331-360: one instruction decoded from its 32-bit word; raw_instr
\* is the little-endian value of the four bytes of instr_data, and the
\* shifts and masks are taken on those bytes
DecodeInstruction(instr_data, i, offset) ==
    LET opcode_num == instr_data[1] % 64
        valid == opcode_num <= MaxOpcode
        bx == (instr_data[2] \div 64) + 4 * instr_data[3] + 1024 * instr_data[4]
    IN  [opcode |-> OpCodeOf(opcode_num),
         a |-> (instr_data[1] \div 64) + 4 * (instr_data[2] % 64),
         b |-> IF valid THEN (instr_data[3] \div 128) + 2 * instr_data[4] ELSE 0,
         c |-> IF valid THEN bx % 512 ELSE 0,
         d |-> IF valid THEN bx ELSE 0,
         aux |-> IF valid THEN (IF bx > 131071 THEN bx - 131071 ELSE bx) ELSE 0,
         line |-> i,
         offset |-> offset,
         raw_data |-> instr_data]

\* the loop of lines 326-363 from instruction i on
RECURSIVE ParseInstructions(_, _, _, _, _)
ParseInstructions(bytecode, offset, i, n, acc) ==
    IF i >= n THEN [ok |-> TRUE, instructions |-> acc, offset |-> offset]
    ELSE LET instr_data == PySlice(bytecode, offset, offset + 4)
         IN  IF Len(instr_data) # 4 THEN Raise("unpack requires a buffer of 4 bytes")
             ELSE ParseInstructions(bytecode, offset + 4, i + 1, n,
                      Append(acc, DecodeInstruction(instr_data, i, offset)))

-----------------------------------------------------------------------------
(* Constants: None, bool, float and str values as [t, v]; v holds the      *)
(* truth value, the 8 bytes of the double, or the code points of the text. *)

Const(t, v) == [t |-> t, v |-> v]

\* str(n) for n >= 0, as code points
RECURSIVE DecimalDigits(_)
DecimalDigits(n) ==
    IF n < 10 THEN <<48 + n>> ELSE DecimalDigits(n \div 10) \o <<48 + (n % 10)>>

\* f"<unknown_type_{const_type}>" (line 393)
UnknownTypeText(const_type) ==
    <<60, 117, 110, 107, 110, 111, 119, 110, 95, 116, 121, 112, 101, 95>>
    \o DecimalDigits(const_type) \o <<62>>

\* lines 371-393: one constant at offset
ParseConstant(bytecode, offset) ==
    LET const_type == ByteAt(bytecode, offset)
    IN  IF ~const_type.ok THEN const_type
        ELSE IF const_type.value = 0
        THEN [ok |-> TRUE, const |-> Const("nil", <<>>), offset |-> offset + 1]
        ELSE IF const_type.value = 1
        THEN (LET bv == ByteAt(bytecode, offset + 1)
              IN  IF ~bv.ok THEN bv
                  ELSE [ok |-> TRUE,
                        const |-> Const("bool", <<IF bv.value # 0 THEN 1 ELSE 0>>),
                        offset |-> offset + 2])
        ELSE IF const_type.value = 3
        THEN (IF offset + 1 + 8 <= Len(bytecode)
              THEN [ok |-> TRUE,
                    const |-> Const("number", PySlice(bytecode, offset + 1, offset + 9)),
                    offset |-> offset + 9]
              ELSE Raise("unpack requires a buffer of 8 bytes"))
        ELSE IF const_type.value = 4
        THEN (LET str == ReadString(bytecode, offset + 1)
              IN  IF ~str.ok THEN str
                  ELSE [ok |-> TRUE, const |-> Const("str", str.text),
                        offset |-> str.offset])
        ELSE [ok |-> TRUE, const |-> Const("str", UnknownTypeText(const_type.value)),
              offset |-> offset + 1]

\* the loop of lines 370-393
RECURSIVE ParseConstants(_, _, _, _)
ParseConstants(bytecode, offset, n, acc) ==
    IF n <= 0 THEN [ok |-> TRUE, constants |-> acc, offset |-> offset]
    ELSE LET c == ParseConstant(bytecode, offset)
         IN  IF ~c.ok THEN c
             ELSE ParseConstants(bytecode, c.offset, n - 1, Append(acc, c.const))

\* the loop of lines 416-425: local variable names
RECURSIVE ParseLocals(_, _, _, _)
ParseLocals(bytecode, offset, n, acc) ==
    IF n <= 0 THEN [ok |-> TRUE, local_names |-> acc, offset |-> offset]
    ELSE LET name == ReadString(bytecode, offset)
         IN  IF ~name.ok THEN name
             ELSE IF name.present
             THEN ParseLocals(bytecode, name.offset, n - 1,
                              Append(acc, <<name.text, 0, 0>>))
             ELSE ParseLocals(bytecode, name.offset + 8, n - 1, acc)

\* the loop of lines 432-438: upvalue names
RECURSIVE ParseUpvalueNames(_, _, _, _)
ParseUpvalueNames(bytecode, offset, n, acc) ==
    IF n <= 0 THEN [ok |-> TRUE, upvalue_names |-> acc, offset |-> offset]
    ELSE LET name == ReadString(bytecode, offset)
         IN  IF ~name.ok THEN name
             ELSE ParseUpvalueNames(bytecode, name.offset, n - 1,
                      IF name.present THEN Append(acc, name.text) ELSE acc)

\* _parse_function while it reads: the offset, the values read so far,
\* and ok = FALSE with the error once a read has raised
Reading(offset) ==
    [ok |-> TRUE, error |-> "", offset |-> offset,
     source_name |-> <<>>, line_defined |-> 0, last_line_defined |-> 0,
     num_upvals |-> 0, num_params |-> 0, is_vararg |-> 0, max_stack_size |-> 0,
     instructions |-> <<>>, constants |-> <<>>, protos |-> <<>>,
     local_names |-> <<>>, upvalue_names |-> <<>>]

\* the exception of a read ends the parse
Raised(st, r) == [st EXCEPT !.ok = FALSE, !.error = r.error]

\* field = struct.unpack('<I', bytecode[offset:offset+4])[0]; offset += 4
ReadU32(bytecode, field, st) ==
    IF ~st.ok THEN st
    ELSE LET value == UnpackU32(bytecode, st.offset)
         IN  IF ~value.ok THEN Raised(st, value)
             ELSE [st EXCEPT ![field] = value.value, !.offset = @ + 4]

\* field = bytecode[offset]; offset += 1
ReadByte(bytecode, field, st) ==
    IF ~st.ok THEN st
    ELSE LET value == ByteAt(bytecode, st.offset)
         IN  IF ~value.ok THEN Raised(st, value)
             ELSE [st EXCEPT ![field] = value.value, !.offset = @ + 1]

\* "<unknown>"
UnknownSource == <<60, 117, 110, 107, 110, 111, 119, 110, 62>>

\* lines 291-298: the source name
ReadSourceName(bytecode, st) ==
    IF ~st.ok THEN st
    ELSE LET source == ReadString(bytecode, st.offset)
         IN  IF ~source.ok THEN Raised(st, source)
             ELSE [st EXCEPT !.source_name = IF source.present THEN source.text
                                             ELSE UnknownSource,
                             !.offset = source.offset]

\* lines 300-319: the line range and the four header bytes
ReadFunctionHeader(bytecode, st) ==
    ReadByte(bytecode, "max_stack_size",
    ReadByte(bytecode, "is_vararg",
    ReadByte(bytecode, "num_params",
    ReadByte(bytecode, "num_upvals",
    ReadU32(bytecode, "last_line_defined",
    ReadU32(bytecode, "line_defined", st))))))

\* lines 322-363: the instructions
ReadInstructions(bytecode, st) ==
    IF ~st.ok THEN st
    ELSE LET num_instructions == UnpackU32(bytecode, st.offset)
             code == ParseInstructions(bytecode, st.offset + 4, 0,
                                       num_instructions.value, <<>>)
         IN  IF ~num_instructions.ok THEN Raised(st, num_instructions)
             ELSE IF ~code.ok THEN Raised(st, code)
             ELSE [st EXCEPT !.instructions = code.instructions,
                             !.offset = code.offset]

\* lines 366-393: the constants
ReadConstants(bytecode, st) ==
    IF ~st.ok THEN st
    ELSE LET num_constants == UnpackU32(bytecode, st.offset)
             consts == ParseConstants(bytecode, st.offset + 4,
                                      num_constants.value, <<>>)
         IN  IF ~num_constants.ok THEN Raised(st, num_constants)
             ELSE IF ~consts.ok THEN Raised(st, consts)
             ELSE [st EXCEPT !.constants = consts.constants,
                             !.offset = consts.offset]

\* lines 405-409: the line info is skipped, not read
SkipLineInfo(bytecode, st) ==
    IF ~st.ok THEN st
    ELSE LET num_lines == UnpackU32(bytecode, st.offset)
         IN  IF ~num_lines.ok THEN Raised(st, num_lines)
             ELSE [st EXCEPT !.offset = @ + 4 + num_lines.value * 4]

\* lines 412-425: the local names
ReadLocalNames(bytecode, st) ==
    IF ~st.ok THEN st
    ELSE LET num_locals == UnpackU32(bytecode, st.offset)
             locals == ParseLocals(bytecode, st.offset + 4, num_locals.value, <<>>)
         IN  IF ~num_locals.ok THEN Raised(st, num_locals)
             ELSE IF ~locals.ok THEN Raised(st, locals)
             ELSE [st EXCEPT !.local_names = locals.local_names,
                             !.offset = locals.offset]

\* lines 428-438: the upvalue names
ReadUpvalueNames(bytecode, st) ==
    IF ~st.ok THEN st
    ELSE LET num_upvalue_names == UnpackU32(bytecode, st.offset)
             upvalues == ParseUpvalueNames(bytecode, st.offset + 4,
                                           num_upvalue_names.value, <<>>)
         IN  IF ~num_upvalue_names.ok THEN Raised(st, num_upvalue_names)
             ELSE IF ~upvalues.ok THEN Raised(st, upvalues)
             ELSE [st EXCEPT !.upvalue_names = upvalues.upvalue_names,
                             !.offset = upvalues.offset]

\* lines 441-457: the Function and the offset after it, or the exception
FunctionRead(st) ==
    IF ~st.ok THEN Raise(st.error)
    ELSE [ok |-> TRUE,
          function |->
             [max_stack_size |-> st.max_stack_size,
              num_params |-> st.num_params,
              num_upvals |-> st.num_upvals,
              is_vararg |-> st.is_vararg,
              instructions |-> st.instructions,
              constants |-> st.constants,
              protos |-> st.protos,
              source_name |-> st.source_name,
              line_defined |-> st.line_defined,
              last_line_defined |-> st.last_line_defined,
              upvalue_names |-> st.upvalue_names,
              local_names |-> st.local_names],
          offset |-> st.offset]

\* _parse_function: the reads of lines 290-438 one after another; the nested
\* functions of lines 396-402 are parsed by _parse_function itself
RECURSIVE parse_function(_, _)
RECURSIVE ParseProtos(_, _, _, _)
ParseProtos(bytecode, offset, n, acc) ==
    IF n <= 0 THEN [ok |-> TRUE, protos |-> acc, offset |-> offset]
    ELSE LET proto == parse_function(bytecode, offset)
         IN  IF ~proto.ok THEN proto
             ELSE ParseProtos(bytecode, proto.offset, n - 1,
                              Append(acc, proto.function))

\* lines 396-402: the nested functions
ReadProtos(bytecode, st) ==
    IF ~st.ok THEN st
    ELSE LET num_protos == UnpackU32(bytecode, st.offset)
             protos == ParseProtos(bytecode, st.offset + 4, num_protos.value, <<>>)
         IN  IF ~num_protos.ok THEN Raised(st, num_protos)
             ELSE IF ~protos.ok THEN Raised(st, protos)
             ELSE [st EXCEPT !.protos = protos.protos, !.offset = protos.offset]

parse_function(bytecode, offset) ==
    FunctionRead(
    ReadUpvalueNames(bytecode,
    ReadLocalNames(bytecode,
    SkipLineInfo(bytecode,
    ReadProtos(bytecode,
    ReadConstants(bytecode,
    ReadInstructions(bytecode,
    ReadFunctionHeader(bytecode,
    ReadSourceName(bytecode, Reading(offset))))))))))

\* the signature b'\x1bLua'
LuaSignature == <<27, 76, 117, 97>>

\* the shortest buffer _parse_bytecode accepts (line 247)
HeaderSize == 12

\* the version byte of Lua 5.1 (line 258)
LuaVersion == 81

\* "Unsupported Lua version: .." of line 259, the version kept as a number
UnsupportedVersion(version) == <<"Unsupported Lua version", version>>

\* line 283-284: the main function, or its exception
MainFunction(main) == IF main.ok THEN main ELSE Raise(<<main.error, 0>>)

\* lines 247-284: the header tests, then the main function that
\* self._parse_function(bytecode, 12) gives
HeaderChecked(bytecode, main) ==
    IF Len(bytecode) < HeaderSize THEN Raise(<<"Invalid bytecode: too short", 0>>)
    ELSE IF PySlice(bytecode, 0, 4) # LuaSignature
    THEN Raise(<<"Invalid Lua bytecode signature", 0>>)
    ELSE IF bytecode[5] # LuaVersion THEN Raise(UnsupportedVersion(bytecode[5]))
    ELSE MainFunction(main)

\* _parse_bytecode without the version test of lines 257-259
ParseAnyVersion(bytecode) ==
    IF Len(bytecode) < HeaderSize THEN Raise(<<"Invalid bytecode: too short", 0>>)
    ELSE IF PySlice(bytecode, 0, 4) # LuaSignature
    THEN Raise(<<"Invalid Lua bytecode signature", 0>>)
    ELSE MainFunction(parse_function(bytecode, HeaderSize))

\* _parse_bytecode
parse_bytecode(bytecode) ==
    HeaderChecked(bytecode, parse_function(bytecode, HeaderSize))

-----------------------------------------------------------------------------
(* AntiObfuscation: text is a sequence of code points                      *)

\* table_a2b_base64: the 6-bit value of a base64 character, 64 for others
B64Value(ch) ==
    IF ch \in 65..90 THEN ch - 65
    ELSE IF ch \in 97..122 THEN ch - 97 + 26
    ELSE IF ch \in 48..57 THEN ch - 48 + 52
    ELSE IF ch = 43 THEN 62
    ELSE IF ch = 47 THEN 63
    ELSE 64

\* table_b2a_base64: the character of a 6-bit value
B64Char(v) ==
    IF v < 26 THEN 65 + v
    ELSE IF v < 52 THEN 97 + (v - 26)
    ELSE IF v < 62 THEN 48 + (v - 52)
    ELSE IF v = 62 THEN 43 ELSE 47

\* the '=' of base64 padding
B64Pad == 61

\* binascii.a2b_base64 (not strict) from character i on: characters outside
\* the alphabet are skipped, a complete pad sequence ends the input, and
\* data left in an unfinished quad is an error
RECURSIVE A2bBase64(_, _, _, _, _, _)
A2bBase64(s, i, quad_pos, leftchar, pads, out) ==
    IF i > Len(s)
    THEN (IF quad_pos # 0 THEN Raise("Incorrect padding")
          ELSE [ok |-> TRUE, bytes |-> out])
    ELSE IF s[i] = B64Pad
    THEN (IF quad_pos >= 2 /\ quad_pos + pads + 1 >= 4
          THEN [ok |-> TRUE, bytes |-> out]
          ELSE A2bBase64(s, i + 1, quad_pos, leftchar,
                         IF quad_pos >= 2 THEN pads + 1 ELSE pads, out))
    ELSE IF B64Value(s[i]) >= 64
    THEN A2bBase64(s, i + 1, quad_pos, leftchar, pads, out)
    ELSE LET v == B64Value(s[i])
         IN  IF quad_pos = 0 THEN A2bBase64(s, i + 1, 1, v, 0, out)
             ELSE IF quad_pos = 1
             THEN A2bBase64(s, i + 1, 2, v % 16, 0,
                            Append(out, leftchar * 4 + (v \div 16)))
             ELSE IF quad_pos = 2
             THEN A2bBase64(s, i + 1, 3, v % 4, 0,
                            Append(out, leftchar * 16 + (v \div 4)))
             ELSE A2bBase64(s, i + 1, 0, 0, 0, Append(out, leftchar * 64 + v))

\* base64.b64decode(s) for a str: ASCII only, then a2b_base64
B64Decode(s) ==
    IF \E i \in 1..Len(s) : s[i] >= 128
    THEN Raise("string argument should contain only ASCII characters")
    ELSE A2bBase64(s, 1, 0, 0, 0, <<>>)

\* base64.b64encode(bytes).decode()
RECURSIVE B64Encode(_)
B64Encode(bytes) ==
    IF Len(bytes) = 0 THEN <<>>
    ELSE IF Len(bytes) = 1
    THEN <<B64Char(bytes[1] \div 4), B64Char((bytes[1] % 4) * 16), B64Pad, B64Pad>>
    ELSE IF Len(bytes) = 2
    THEN <<B64Char(bytes[1] \div 4),
           B64Char((bytes[1] % 4) * 16 + (bytes[2] \div 16)),
           B64Char((bytes[2] % 16) * 4), B64Pad>>
    ELSE <<B64Char(bytes[1] \div 4),
           B64Char((bytes[1] % 4) * 16 + (bytes[2] \div 16)),
           B64Char((bytes[2] % 16) * 4 + (bytes[3] \div 64)),
           B64Char(bytes[3] % 64)>>
         \o B64Encode(SubSeq(bytes, 4, Len(bytes)))

\* a continuation byte of UTF-8 at position i
Utf8Cont(bytes, i) == i <= Len(bytes) /\ bytes[i] \in 128..191

\* the length of the well-formed UTF-8 sequence that starts at i, 0 if none
Utf8SeqLen(bytes, i) ==
    LET b == bytes[i]
        second == IF i + 1 <= Len(bytes) THEN bytes[i + 1] ELSE 0
    IN  IF b < 128 THEN 1
        ELSE IF b \in 194..223 /\ Utf8Cont(bytes, i + 1) THEN 2
        ELSE IF /\ b \in 224..239
                /\ Utf8Cont(bytes, i + 1) /\ Utf8Cont(bytes, i + 2)
                /\ (b = 224 => second >= 160)
                /\ (b = 237 => second <= 159)
        THEN 3
        ELSE IF /\ b \in 240..244
                /\ Utf8Cont(bytes, i + 1) /\ Utf8Cont(bytes, i + 2)
                /\ Utf8Cont(bytes, i + 3)
                /\ (b = 240 => second >= 144)
                /\ (b = 244 => second <= 143)
        THEN 4
        ELSE 0

\* the code point of the well-formed sequence of length n at i
Utf8CodePoint(bytes, i, n) ==
    IF n = 1 THEN bytes[i]
    ELSE IF n = 2 THEN (bytes[i] % 32) * 64 + (bytes[i + 1] % 64)
    ELSE IF n = 3
    THEN (bytes[i] % 16) * 4096 + (bytes[i + 1] % 64) * 64 + (bytes[i + 2] % 64)
    ELSE (bytes[i] % 8) * 262144 + (bytes[i + 1] % 64) * 4096
         + (bytes[i + 2] % 64) * 64 + (bytes[i + 3] % 64)

\* bytes.decode('utf-8'): the text, or UnicodeDecodeError
RECURSIVE DecodeStrict(_, _, _)
DecodeStrict(bytes, i, out) ==
    IF i > Len(bytes) THEN [ok |-> TRUE, text |-> out]
    ELSE LET n == Utf8SeqLen(bytes, i)
         IN  IF n = 0 THEN Raise("'utf-8' codec can't decode")
             ELSE DecodeStrict(bytes, i + n, Append(out, Utf8CodePoint(bytes, i, n)))

\* _is_base64_encoded: decoding succeeds and encoding the result gives s
is_base64_encoded(s) ==
    LET decoded == B64Decode(s)
    IN  decoded.ok /\ B64Encode(decoded.bytes) = s

\* c in '0123456789abcdefABCDEF'
IsHexDigit(ch) == ch \in 48..57 \/ ch \in 97..102 \/ ch \in 65..70

HexValue(ch) ==
    IF ch \in 48..57 THEN ch - 48
    ELSE IF ch \in 97..102 THEN ch - 97 + 10 ELSE ch - 65 + 10

\* _is_hex_encoded: int(s, 16) raises on the empty string, and on no other
\* string that passes the two tests of line 194
is_hex_encoded(s) ==
    /\ Len(s) > 0
    /\ Len(s) % 2 = 0
    /\ \A i \in 1..Len(s) : IsHexDigit(s[i])

\* bytes.fromhex(s) for a string of hex digits of even length
FromHex(s) ==
    [i \in 1..(Len(s) \div 2) |-> 16 * HexValue(s[2 * i - 1]) + HexValue(s[2 * i])]

\* lines 162-176 for one constant: the decoded text, or "not deobfuscated"
Deobfuscate(const) ==
    IF const.t # "str" THEN [found |-> FALSE, text |-> <<>>]
    ELSE IF is_base64_encoded(const.v)
    THEN (LET decoded == DecodeStrict(B64Decode(const.v).bytes, 1, <<>>)
          IN  IF decoded.ok THEN [found |-> TRUE, text |-> decoded.text]
              ELSE [found |-> FALSE, text |-> <<>>])
    ELSE IF is_hex_encoded(const.v)
    THEN (LET decoded == DecodeStrict(FromHex(const.v), 1, <<>>)
          IN  IF decoded.ok THEN [found |-> TRUE, text |-> decoded.text]
              ELSE [found |-> FALSE, text |-> <<>>])
    ELSE [found |-> FALSE, text |-> <<>>]

\* detect_string_obfuscation: index (0-based) -> decoded text
detect_string_obfuscation(constants) ==
    [i \in {j \in 0..(Len(constants) - 1) : Deobfuscate(constants[j + 1]).found} |->
        Deobfuscate(constants[i + 1]).text]

\* detect_control_flow_obfuscation: the JMPs whose target is out of range
detect_control_flow_obfuscation(instructions) ==
    {i \in 0..(Len(instructions) - 1) :
        /\ instructions[i + 1].opcode = "JMP"
        /\ LET target == i + instructions[i + 1].aux + 1
           IN  target < 0 \/ target >= Len(instructions)}

-----------------------------------------------------------------------------
(* Text produced by the decompiler.  A line is a sequence of tokens: fixed *)
(* text, a name with its register number, a number, the code points of a   *)
(* string constant, or the bytes of a float constant.                      *)

Lit(s) == [k |-> "lit", s |-> s, n |-> 0, v |-> <<>>]
Name(prefix, n) == [k |-> "name", s |-> prefix, n |-> n, v |-> <<>>]
Num(n) == [k |-> "int", s |-> "", n |-> n, v |-> <<>>]
Text(v) == [k |-> "text", s |-> "", n |-> 0, v |-> v]
Float(v) == [k |-> "float", s |-> "", n |-> 0, v |-> v]

\* f"{const_val}" for a constant
FormatConst(const) ==
    IF const.t = "nil" THEN Lit("None")
    ELSE IF const.t = "bool" THEN Lit(IF const.v[1] = 1 THEN "True" ELSE "False")
    ELSE IF const.t = "number" THEN Float(const.v)
    ELSE Text(const.v)

\* ', '.join(parts) for a list of tokens
RECURSIVE Join(_)
Join(parts) ==
    IF Len(parts) = 0 THEN <<>>
    ELSE IF Len(parts) = 1 THEN <<parts[1]>>
    ELSE <<parts[1], Lit(", ")>> \o Join(Tail(parts))

-----------------------------------------------------------------------------
(* VariableRecovery                                                        *)

\* _analyze_instruction_context
analyze_instruction_context(instr) ==
    IF instr.opcode = "GETTABLE" THEN "table_access"
    ELSE IF instr.opcode = "CALL" THEN "function_call"
    ELSE IF instr.opcode \in {"FORPREP", "FORLOOP"} THEN "loop_var"
    ELSE "none"

\* infer_variable_name
infer_variable_name(names, reg, context) ==
    IF reg \in DOMAIN names THEN names[reg]
    ELSE IF context = "table_access" THEN Name("table_", reg)
    ELSE IF context = "function_call" THEN Name("result_", reg)
    ELSE IF context = "loop_var" THEN Name("i_", reg)
    ELSE Name("var_", reg)

\* infer_type
infer_type(instruction) ==
    IF instruction.opcode = "LOADK" THEN "string"
    ELSE IF instruction.opcode = "LOADBOOL" THEN "boolean"
    ELSE IF instruction.opcode = "LOADNIL" THEN "nil"
    ELSE IF instruction.opcode = "NEWTABLE" THEN "table"
    ELSE "any"

\* _recover_variables from instruction i (1-based) on
RECURSIVE RecoverFrom(_, _, _, _)
RecoverFrom(names, types, instructions, i) ==
    IF i > Len(instructions)
    THEN [variable_map |-> names, type_inference |-> types]
    ELSE LET instr == instructions[i]
         IN  IF instr.opcode \in {"MOVE", "LOADK", "LOADBOOL", "LOADNIL"}
             THEN RecoverFrom(
                      Put(names, instr.a,
                          infer_variable_name(names, instr.a,
                                              analyze_instruction_context(instr))),
                      Put(types, instr.a, infer_type(instr)),
                      instructions, i + 1)
             ELSE RecoverFrom(names, types, instructions, i + 1)

\* _recover_variables
recover_variables(names, types, function) ==
    RecoverFrom(names, types, function.instructions, 1)

-----------------------------------------------------------------------------
(* ApexDecompiler._apply_deobfuscation and _build_cfg                      *)

\* self.deobfuscation_stats = {} of __init__
NoStats == [set |-> FALSE, deobfuscated_strings |-> 0, suspicious_jumps |-> 0]

\* lines 464-476: the constants rewritten in place, and the stats
Deobfuscated(function, deobfuscated_strings, suspicious_jumps) ==
    [function |->
        [function EXCEPT !.constants =
            [i \in 1..Len(function.constants) |->
                IF (i - 1) \in DOMAIN deobfuscated_strings
                THEN Const("str", deobfuscated_strings[i - 1])
                ELSE function.constants[i]]],
     deobfuscation_stats |->
        [set |-> TRUE,
         deobfuscated_strings |-> Cardinality(DOMAIN deobfuscated_strings),
         suspicious_jumps |-> Cardinality(suspicious_jumps)]]

\* _apply_deobfuscation
apply_deobfuscation(function) ==
    Deobfuscated(function, detect_string_obfuscation(function.constants),
                 detect_control_flow_obfuscation(function.instructions))

\* ControlFlowGraph() of __init__
NoCfg == [nodes |-> <<>>, edges |-> <<>>]

\* the edges _build_cfg adds for instruction i (lines 484-490)
CfgEdgesOf(instr, i) ==
    IF instr.opcode = "JMP" THEN <<<<i + instr.aux + 1, "None">>>>
    ELSE IF instr.opcode \in {"EQ", "LT", "LE"}
    THEN <<<<i + 1, "false">>, <<i + 2, "true">>>>
    ELSE <<>>

\* ApexDecompiler._build_cfg: nodes are overwritten, edge lists are added to
decompiler_build_cfg(graph, function) ==
    LET N == Len(function.instructions)
        at(i) == function.instructions[i + 1]
        keys == {i \in 0..(N - 1) : CfgEdgesOf(at(i), i) # <<>>}
    IN  [nodes |-> [pc \in DOMAIN graph.nodes \cup 0..(N - 1) |->
                       IF pc < N THEN at(pc) ELSE graph.nodes[pc]],
         edges |-> [pc \in DOMAIN graph.edges \cup keys |->
                       (IF pc \in DOMAIN graph.edges THEN graph.edges[pc] ELSE <<>>)
                       \o (IF pc \in keys THEN CfgEdgesOf(at(pc), pc) ELSE <<>>)]]

-----------------------------------------------------------------------------
(* ApexDecompiler._instruction_to_source and _generate_source              *)

\* self.variable_recovery.variable_map.get(reg, f"var{reg}")
VarName(names, reg) ==
    IF reg \in DOMAIN names THEN names[reg] ELSE Name("var", reg)

\* the names of registers lo..hi, as a list
VarNames(names, lo, hi) ==
    [i \in 1..(IF hi >= lo THEN hi - lo + 1 ELSE 0) |-> VarName(names, lo + i - 1)]

\* a constant list read with indices that start at 1
ConstantAtOneBased(function, idx) ==
    IF idx >= 1 /\ idx <= Len(function.constants)
    THEN [ok |-> TRUE, const |-> function.constants[idx]]
    ELSE Raise("list index out of range")

\* function.constants[idx], IndexError when idx is out of range
ConstantAt(function, idx) ==
    IF idx < Len(function.constants)
    THEN [ok |-> TRUE, const |-> function.constants[idx + 1]]
    ELSE Raise("list index out of range")

\* x & 0x100 of lines 609 and 626
ConstantFlag == 256

\* a result of the try block: the line, or an exception
Line(tokens) == [ok |-> TRUE, line |-> tokens]

\* a table key that is a constant (lines 610-616, 627-633): .key for a str,
\* [key] otherwise, and no line at all when the index is out of range
KeyOfConstant(function, key_idx, prefix, suffix) ==
    IF key_idx < Len(function.constants)
    THEN (LET key == ConstantAt(function, key_idx)
          IN  IF ~key.ok THEN key
              ELSE IF key.const.t = "str"
              THEN Line(prefix \o <<Lit("."), FormatConst(key.const)>> \o suffix)
              ELSE Line(prefix \o <<Lit("["), FormatConst(key.const), Lit("]")>>
                        \o suffix))
    ELSE Line(<<>>)

\* the try block of lines 565-683; an empty line stands for falling out of
\* the if chain to the return "" of line 688
InstructionBody(names, instr, function) ==
    LET var(r) == VarName(names, r)
        op == instr.opcode
    IN  IF op = "LOADK"
        THEN (IF instr.d < Len(function.constants)
              THEN (LET const_val == ConstantAt(function, instr.d)
                    IN  IF ~const_val.ok THEN const_val
                        ELSE IF const_val.const.t = "str"
                        THEN Line(<<Lit("local "), var(instr.a), Lit(" = \""),
                                    FormatConst(const_val.const), Lit("\"")>>)
                        ELSE Line(<<Lit("local "), var(instr.a), Lit(" = "),
                                    FormatConst(const_val.const)>>))
              ELSE Line(<<>>))
        ELSE IF op = "LOADBOOL"
        THEN Line(<<Lit("local "), var(instr.a), Lit(" = "),
                    Lit(IF instr.b # 0 THEN "true" ELSE "false")>>)
        ELSE IF op = "LOADNIL"
        THEN Line(<<Lit("local ")>>
                  \o Join(VarNames(names, instr.a, instr.a + instr.b))
                  \o <<Lit(" = nil")>>)
        ELSE IF op = "MOVE"
        THEN Line(<<Lit("local "), var(instr.a), Lit(" = "), var(instr.b)>>)
        ELSE IF op = "GETGLOBAL"
        THEN (IF instr.d < Len(function.constants)
              THEN (LET global_name == ConstantAt(function, instr.d)
                    IN  IF ~global_name.ok THEN global_name
                        ELSE Line(<<Lit("local "), var(instr.a), Lit(" = "),
                                    FormatConst(global_name.const)>>))
              ELSE Line(<<Lit("local "), var(instr.a), Lit(" = _G["), Num(instr.d),
                          Lit("]")>>))
        ELSE IF op = "SETGLOBAL"
        THEN (IF instr.d < Len(function.constants)
              THEN (LET global_name == ConstantAt(function, instr.d)
                    IN  IF ~global_name.ok THEN global_name
                        ELSE Line(<<FormatConst(global_name.const), Lit(" = "),
                                    var(instr.a)>>))
              ELSE Line(<<Lit("_G["), Num(instr.d), Lit("] = "), var(instr.a)>>))
        ELSE IF op = "GETTABLE"
        THEN (IF (instr.c \div ConstantFlag) % 2 = 1
              THEN KeyOfConstant(function, instr.c % 256,
                       <<Lit("local "), var(instr.a), Lit(" = "), var(instr.b)>>,
                       <<>>)
              ELSE Line(<<Lit("local "), var(instr.a), Lit(" = "), var(instr.b),
                          Lit("["), var(instr.c), Lit("]")>>))
        ELSE IF op = "SETTABLE"
        THEN (IF (instr.b \div ConstantFlag) % 2 = 1
              THEN KeyOfConstant(function, instr.b % 256, <<var(instr.a)>>,
                                 <<Lit(" = "), var(instr.c)>>)
              ELSE Line(<<var(instr.a), Lit("["), var(instr.b), Lit("] = "),
                          var(instr.c)>>))
        ELSE IF op = "NEWTABLE"
        THEN Line(<<Lit("local "), var(instr.a), Lit(" = {}")>>)
        ELSE IF op = "CALL"
        THEN (IF instr.b = 1 THEN Line(<<var(instr.a), Lit("()")>>)
              ELSE IF instr.b = 2
              THEN Line(<<var(instr.a), Lit("("), var(instr.a + 1), Lit(")")>>)
              ELSE Line(<<var(instr.a), Lit("(")>>
                        \o Join(VarNames(names, instr.a + 1,
                                         instr.a + instr.b - 1))
                        \o <<Lit(")")>>))
        ELSE IF op = "RETURN"
        THEN (IF instr.b = 1 THEN Line(<<Lit("return")>>)
              ELSE IF instr.b = 2 THEN Line(<<Lit("return "), var(instr.a)>>)
              ELSE Line(<<Lit("return ")>>
                        \o Join(VarNames(names, instr.a,
                                         instr.a + instr.b - 2))))
        ELSE IF op = "JMP"
        THEN Line(<<Lit("-- JUMP to +"), Num(instr.aux)>>)
        ELSE IF op = "ADD"
        THEN Line(<<Lit("local "), var(instr.a), Lit(" = "), var(instr.b),
                    Lit(" + "), var(instr.c)>>)
        ELSE IF op = "SUB"
        THEN Line(<<Lit("local "), var(instr.a), Lit(" = "), var(instr.b),
                    Lit(" - "), var(instr.c)>>)
        ELSE Line(<<Lit("-- "), Lit(op), Lit(" R("), Num(instr.a), Lit(") R("),
                    Num(instr.b), Lit(") R("), Num(instr.c), Lit(")")>>)

\* lines 685-686: an exception of the try block becomes a comment
Caught(instr, body) ==
    IF body.ok THEN body.line
    ELSE <<Lit("-- Error processing "), Lit(instr.opcode), Lit(": "),
           Lit(body.error)>>

\* _instruction_to_source: the text of one instruction
instruction_to_source(names, instr, function) ==
    Caught(instr, InstructionBody(names, instr, function))

\* lines 548-549: an empty source_line adds no line
WithLine(lines, source_line) ==
    IF source_line # <<>> THEN Append(lines, <<Lit("    ")>> \o source_line)
    ELSE lines

\* lines 546-549: the lines of the instructions from i on
RECURSIVE SourceLinesFrom(_, _, _, _)
SourceLinesFrom(names, function, i, acc) ==
    IF i > Len(function.instructions) THEN acc
    ELSE SourceLinesFrom(names, function, i + 1,
             WithLine(acc, instruction_to_source(names, function.instructions[i],
                                                 function)))

\* lines 530-541: the function signature
Signature(names, function) ==
    IF function.num_params > 0
    THEN <<Lit("function(")>>
         \o Join([i \in 1..function.num_params |->
                     IF (i - 1) \in DOMAIN names THEN names[i - 1]
                     ELSE Name("param", i - 1)]
                 \o (IF function.is_vararg # 0 THEN <<Lit("...")>> ELSE <<>>))
         \o <<Lit(")")>>
    ELSE <<Lit("function()")>>

\* lines 554-558: the statistics footer
StatsFooter(stats) ==
    IF stats.set
    THEN << <<>>,
            <<Lit("-- Deobfuscation Stats:")>>,
            <<Lit("-- Strings deobfuscated: "),
              Num(stats.deobfuscated_strings)>>,
            <<Lit("-- Suspicious jumps detected: "),
              Num(stats.suspicious_jumps)>> >>
    ELSE <<>>

\* lines 520-560: the lines around those of the instructions
SourceOf(names, stats, function, body) ==
    [ok |-> TRUE,
     lines |->
        << <<Lit("-- Decompiled with Apex Decompiler v1.0.0")>>,
           <<Lit("-- Superior to Oracle, Medal, and Konstant combined")>>,
           <<Lit("-- Advanced anti-obfuscation and variable recovery")>>,
           <<>>,
           Signature(names, function) >>
        \o body
        \o << <<Lit("end")>> >>
        \o StatsFooter(stats)]

\* _generate_source: the text as a list of lines
generate_source(names, stats, function) ==
    SourceOf(names, stats, function, SourceLinesFrom(names, function, 1, <<>>))

-----------------------------------------------------------------------------
(* ApexDecompiler: the instance and decompile_bytecode                     *)

\* ApexDecompiler.__init__
FreshDecompiler ==
    [variable_map |-> <<>>, type_inference |-> <<>>, cfg |-> NoCfg,
     deobfuscation_stats |-> NoStats]

\* the text of a successful decompilation: its lines
SourceText(lines) == [kind |-> "source", lines |-> lines, error |-> <<"", 0>>]

\* the two lines of text of line 243, with str(e) kept as the error
FailedText(error) == [kind |-> "failed", lines |-> <<>>, error |-> error]

\* lines 238-243: the source is returned, an exception becomes the text
\* of line 243
ReturnSource(after, source) ==
    IF source.ok THEN [self |-> after, result |-> SourceText(source.lines)]
    ELSE [self |-> after, result |-> FailedText(<<source.error, 0>>)]

\* lines 232-238: the graph is built, the names recovered, the source
\* generated from them
AfterRecovery(deobfuscated, built, recovered) ==
    ReturnSource([variable_map |-> recovered.variable_map,
                  type_inference |-> recovered.type_inference,
                  cfg |-> built,
                  deobfuscation_stats |-> deobfuscated.deobfuscation_stats],
                 generate_source(recovered.variable_map,
                                 deobfuscated.deobfuscation_stats,
                                 deobfuscated.function))

\* lines 229-235, on the function with its constants deobfuscated
AfterDeobfuscation(self, deobfuscated) ==
    AfterRecovery(deobfuscated,
                  decompiler_build_cfg(self.cfg, deobfuscated.function),
                  recover_variables(self.variable_map, self.type_inference,
                                    deobfuscated.function))

\* decompile_bytecode without the except clause of lines 242-243: the
\* exception of _parse_bytecode reaches the caller
AfterParseUncaught(self, main_function) ==
    IF ~main_function.ok
    THEN [self |-> self,
          result |-> [kind |-> "raised", lines |-> <<>>, error |-> main_function.error]]
    ELSE AfterDeobfuscation(self, apply_deobfuscation(main_function.function))

\* lines 226-243: an exception of _parse_bytecode leaves the fields as they
\* were and becomes the text of line 243
AfterParse(self, main_function) ==
    IF ~main_function.ok
    THEN [self |-> self, result |-> FailedText(main_function.error)]
    ELSE AfterDeobfuscation(self, apply_deobfuscation(main_function.function))

\* decompile_bytecode on a decompiler whose fields are `self`: the fields
\* after the call and the returned text
decompile_bytecode(self, bytecode) == AfterParse(self, parse_bytecode(bytecode))

\* the decompiler as the state holds it
Decompiler ==
    [variable_map |-> variable_map, type_inference |-> type_inference,
     cfg |-> cfg, deobfuscation_stats |-> deobfuscation_stats]

\* "no call made yet"
NoText == [kind |-> "none", lines |-> <<>>, error |-> <<"", 0>>]

DecompilerInit ==
    /\ variable_map = FreshDecompiler.variable_map
    /\ type_inference = FreshDecompiler.type_inference
    /\ cfg = FreshDecompiler.cfg
    /\ deobfuscation_stats = FreshDecompiler.deobfuscation_stats
    /\ dec_bytecode = <<>>
    /\ dec_source = NoText
    /\ dec_calls = 0

\* no batch_decompile call is made
BatchIdle ==
    /\ bytecode_files = <<>>
    /\ chunks = <<>>
    /\ results = <<>>
    /\ parse_function_cache = <<>>
    /\ instruction_to_source_cache = <<>>

\* no cache is made by cached_function and no parallel_map call is made
PerfIdle ==
    /\ cm_cache = <<>>
    /\ cm_max_size = 1
    /\ hit_counts = 0
    /\ miss_counts = 0
    /\ pm_items = <<>>
    /\ pm_chunk_size = 0
    /\ pm_futures = <<>>
    /\ pm_results = <<>>
    /\ pm_pc = "call"
    /\ pm_overtaken = FALSE

\* the call returns r: the fields and the text it leaves
Returns(bytecode, r) ==
    /\ variable_map' = r.self.variable_map
    /\ type_inference' = r.self.type_inference
    /\ cfg' = r.self.cfg
    /\ deobfuscation_stats' = r.self.deobfuscation_stats
    /\ dec_bytecode' = bytecode
    /\ dec_source' = r.result
    /\ dec_calls' = dec_calls + 1
    /\ UNCHANGED <<anVars, batchVars, perfVars>>

\* one call decompiler.decompile_bytecode(bytecode)
DecompileBytecode(bytecode) == Returns(bytecode, decompile_bytecode(Decompiler, bytecode))

-----------------------------------------------------------------------------
(* Inputs of the analyzer.                                                 *)

\* the instructions the analyzed functions are made of: plain ones, the
\* block-ending CALL and RETURN, and jumps of the 5.1 profile (JMP) and of
\* the profile whose opcode names hold 'JUMP', with operands that lead back
\* to the first instruction of the longest list, to the jump itself, to
\* the next instruction, over the next instruction, or out of the list
AnalyzerInstrs ==
    {Instr("MOVE", 0, 1, 0, 0), Instr("LOADK", 1, 0, 0, 0),
     Instr("CALL", 0, 1, 1, 0), Instr("RETURN", 0, 1, 0, 0)}
    \cup {Instr("JMP", 0, 0, 0, d) : d \in {0 - MaxInstr, 0, 1}}
    \cup {Instr("JUMP", 0, 0, 0, d) : d \in {0 - MaxInstr, 0 - 1, 1}}
    \cup {Instr("JUMPIF", 0, 0, 0, d) : d \in {0 - 2, 1}}

\* all lists over S of length lo..hi
SeqsOf(S, lo, hi) == UNION {[1..n -> S] : n \in lo..hi}

Function(instructions) == [instructions |-> instructions, constants |-> <<>>]

\* longer lists of plain instructions, constant loads and jumps to the next
\* instruction: in them the ratios of _detect_optimization_level take
\* values such as 1/4 and 2/4
RatioInstrs ==
    {Instr("MOVE", 0, 1, 0, 0), Instr("LOADK", 1, 0, 0, 0), Instr("JMP", 0, 0, 0, 0)}

\* the functions analysed on a fresh analyzer
Functions ==
    {Function(s) : s \in SeqsOf(AnalyzerInstrs, 0, MaxInstr)
                          \cup SeqsOf(RatioInstrs, MaxInstr + 1, MaxInstr + 1)}

\* the functions analysed one after another on the same analyzer
ReuseInstrs ==
    {Instr("MOVE", 0, 1, 0, 0), Instr("RETURN", 0, 1, 0, 0),
     Instr("JUMP", 0, 0, 0, 0 - 1)}

ReuseFunctions == {Function(s) : s \in SeqsOf(ReuseInstrs, 1, MaxInstr)}

-----------------------------------------------------------------------------
(* Specifications of the analyzer.                                         *)

\* one analyze_function call on a new analyzer
FreshAnalyze == \E f \in Functions : an_calls = 0 /\ AnalyzeFunction(f)

InitFresh == AnalyzerInit /\ DecompilerInit /\ BatchIdle /\ PerfIdle
NextFresh == FreshAnalyze
SpecFresh == InitFresh /\ [][NextFresh]_vars

\* up to MaxCalls analyze_function calls on the same analyzer
ReuseAnalyze == \E f \in ReuseFunctions : an_calls < MaxCalls /\ AnalyzeFunction(f)

InitReuse == AnalyzerInit /\ DecompilerInit /\ BatchIdle /\ PerfIdle
NextReuse == ReuseAnalyze
SpecReuse == InitReuse /\ [][NextReuse]_vars

-----------------------------------------------------------------------------
(* analyze_function step by step: every visit of a block by the for loops *)
(* of _compute_dominance and of _compute_liveness, and every test of their *)
(* while loops, is a step, so that a loop that never ends is a behaviour   *)
(* that never returns.                                                     *)

\* lines 66 and 183-192: the CFG is built and the dominator sets are set
\* to their start values
BeginAnalysis(function) ==
    /\ an_phase = "idle"
    /\ LET built == build_cfg(basic_blocks, cfg_edges, function)
       IN  /\ basic_blocks' = WithDominators(built.basic_blocks,
                                             InitialDominators(built.basic_blocks))
           /\ cfg_edges' = built.cfg_edges
           /\ an_ids' = Sorted(DOMAIN built.basic_blocks)
    /\ an_function' = function
    /\ an_changed' = FALSE
    /\ an_phase' = "dominance"
    /\ UNCHANGED <<dominance_tree, loops, data_flow, optimization_level,
                   an_calls, decVars, batchVars, perfVars>>

\* the dominator sets stored in the blocks
DominatorsOf(bb) == [id \in DOMAIN bb |-> bb[id].dominators]

\* lines 199-215, the for loop at one block: the entry block is skipped, any
\* other block gets its new set and, if the set differs, changed is set
DominanceStep ==
    /\ an_phase = "dominance"
    /\ an_ids # <<>>
    /\ LET block_id == Head(an_ids)
           new_dominators == NewDominators(basic_blocks, DominatorsOf(basic_blocks),
                                           block_id)
       IN  IF block_id # 0 /\ new_dominators # basic_blocks[block_id].dominators
           THEN /\ basic_blocks' = [basic_blocks EXCEPT
                                        ![block_id].dominators = new_dominators]
                /\ an_changed' = TRUE
           ELSE UNCHANGED <<basic_blocks, an_changed>>
    /\ an_ids' = Tail(an_ids)
    /\ UNCHANGED <<cfg_edges, dominance_tree, loops, data_flow, optimization_level,
                   an_function, an_calls, an_phase, decVars, batchVars, perfVars>>

\* line 195 after a run of the for loop: with changed set the while loop
\* runs the for loop again; otherwise lines 218-230 build the tree and
\* _detect_loops starts from the empty list (line 234) at the first back edge
DominanceRunEnd ==
    /\ an_phase = "dominance"
    /\ an_ids = <<>>
    /\ IF an_changed
       THEN /\ an_ids' = Sorted(DOMAIN basic_blocks)
            /\ an_changed' = FALSE
            /\ UNCHANGED <<dominance_tree, loops, an_phase>>
       ELSE /\ dominance_tree' = DominanceTree(basic_blocks, dominance_tree)
            /\ loops' = <<>>
            /\ an_ids' = BackEdges(basic_blocks)
            /\ an_phase' = "loops"
            /\ UNCHANGED an_changed
    /\ UNCHANGED <<basic_blocks, cfg_edges, data_flow, optimization_level,
                   an_function, an_calls, decVars, batchVars, perfVars>>

\* lines 241-259 for one back edge: its LoopInfo is appended to self.loops
LoopStep ==
    /\ an_phase = "loops"
    /\ an_ids # <<>>
    /\ loops' = Append(loops, LoopInfo(basic_blocks, loops,
                                       Head(an_ids)[1], Head(an_ids)[2]))
    /\ an_ids' = Tail(an_ids)
    /\ UNCHANGED <<basic_blocks, cfg_edges, dominance_tree, data_flow,
                   optimization_level, an_function, an_calls, an_changed,
                   an_phase, decVars, batchVars, perfVars>>

\* _detect_loops returns; lines 322-344 give every block its DataFlowInfo
\* and _compute_liveness starts its first run of the for loop
LoopsEnd ==
    /\ an_phase = "loops"
    /\ an_ids = <<>>
    /\ data_flow' = InitialDataFlow(basic_blocks, data_flow)
    /\ an_ids' = LivenessOrder(basic_blocks)
    /\ an_changed' = FALSE
    /\ an_phase' = "liveness"
    /\ UNCHANGED <<basic_blocks, cfg_edges, dominance_tree, loops,
                   optimization_level, an_function, an_calls, decVars, batchVars, perfVars>>

\* lines 356-380, the for loop at one block: live_out and live_in are
\* computed anew, and changed is set if live_in differs
LivenessStep ==
    /\ an_phase = "liveness"
    /\ an_ids # <<>>
    /\ LET block_id == Head(an_ids)
           new == LivenessOfBlock(basic_blocks, data_flow, block_id)
       IN  /\ data_flow' = [data_flow EXCEPT ![block_id] = new]
           /\ an_changed' = (an_changed \/ new.live_in # data_flow[block_id].live_in)
    /\ an_ids' = Tail(an_ids)
    /\ UNCHANGED <<basic_blocks, cfg_edges, dominance_tree, loops,
                   optimization_level, an_function, an_calls, an_phase,
                   decVars, batchVars, perfVars>>

\* line 353 after a run of the for loop: with changed set the while loop
\* runs the for loop again; otherwise _detect_optimization_level runs and
\* analyze_function returns (lines 82-89)
LivenessRunEnd ==
    /\ an_phase = "liveness"
    /\ an_ids = <<>>
    /\ IF an_changed
       THEN /\ an_ids' = LivenessOrder(basic_blocks)
            /\ an_changed' = FALSE
            /\ UNCHANGED <<optimization_level, an_calls, an_phase>>
       ELSE /\ optimization_level' = detect_optimization_level(basic_blocks,
                                                               an_function)
            /\ an_calls' = an_calls + 1
            /\ an_phase' = "returned"
            /\ UNCHANGED <<an_ids, an_changed>>
    /\ UNCHANGED <<basic_blocks, cfg_edges, dominance_tree, loops, data_flow,
                   an_function, decVars, batchVars, perfVars>>

\* the instructions of the functions analysed run by run: a plain one, the
\* block-ending CALL and RETURN (what follows a RETURN is unreachable), and
\* jumps back to the jump itself and to the instruction before it
RunInstrs ==
    {Instr("MOVE", 0, 1, 0, 0), Instr("CALL", 0, 1, 1, 0),
     Instr("RETURN", 0, 1, 0, 0), Instr("JUMP", 0, 0, 0, 0 - 1),
     Instr("JUMPIF", 0, 0, 0, 0 - 2)}

RunFunctions == {Function(s) : s \in SeqsOf(RunInstrs, 0, MaxInstr)}

\* analyze_function on a new analyzer, run by run; the interpreter goes on
\* running a call it has begun, one run of a loop after the other
AnalyzeByRuns ==
    \/ \E f \in RunFunctions : BeginAnalysis(f)
    \/ DominanceStep
    \/ DominanceRunEnd
    \/ LoopStep
    \/ LoopsEnd
    \/ LivenessStep
    \/ LivenessRunEnd

InitRuns == AnalyzerInit /\ DecompilerInit /\ BatchIdle /\ PerfIdle
NextRuns == AnalyzeByRuns
SpecRuns ==
    /\ InitRuns /\ [][NextRuns]_vars
    /\ WF_vars(DominanceStep) /\ WF_vars(DominanceRunEnd)
    /\ WF_vars(LoopStep) /\ WF_vars(LoopsEnd)
    /\ WF_vars(LivenessStep) /\ WF_vars(LivenessRunEnd)

-----------------------------------------------------------------------------
(* Claims about the analyzer.                                              *)

\* the block ids that hold instruction index pc
BlocksAt(pc) ==
    {id \in DOMAIN basic_blocks :
        basic_blocks[id].start_pc <= pc /\ pc <= basic_blocks[id].end_pc}

\* C1: after _build_cfg on a fresh analyzer for a list of N >= 1
\* instructions, the block ids are 0..k-1, every block is a non-empty range
\* inside [0, N), and every instruction index lies in exactly one block.
C1_BlocksPartition ==
    (an_calls = 1 /\ Len(an_function.instructions) >= 1) =>
        LET N == Len(an_function.instructions)
            k == Cardinality(DOMAIN basic_blocks)
        IN  /\ DOMAIN basic_blocks = 0..(k - 1)
            /\ \A id \in DOMAIN basic_blocks :
                  /\ basic_blocks[id].id = id
                  /\ 0 <= basic_blocks[id].start_pc
                  /\ basic_blocks[id].start_pc <= basic_blocks[id].end_pc
                  /\ basic_blocks[id].end_pc < N
            /\ \A pc \in 0..(N - 1) : Cardinality(BlocksAt(pc)) = 1

\* a list split into several blocks by a JMP with an in-range target
C1_Witness ==
    /\ an_calls = 1
    /\ Cardinality(DOMAIN basic_blocks) >= 3
    /\ \E i \in 1..Len(an_function.instructions) :
          /\ an_function.instructions[i].opcode = "JMP"
          /\ (i - 1) + an_function.instructions[i].d + 1 \in
                 1..(Len(an_function.instructions) - 1)

\* C2: after any sequence of analyze_function calls the blocks (with their
\* edges and dominator sets), self.cfg_edges, the dominance tree and the
\* data-flow facts are those a fresh analyzer computes for the latest
\* function.
C2_FreshPerClosure ==
    an_calls >= 1 =>
        LET fresh == analyze_function(FreshAnalyzer, an_function)
        IN  /\ basic_blocks = fresh.basic_blocks
            /\ cfg_edges = fresh.cfg_edges
            /\ dominance_tree = fresh.dominance_tree
            /\ data_flow = fresh.data_flow

\* instruction 2 of a 3-instruction list jumps back to instruction 0
JumpsBackToStart(function) ==
    /\ Len(function.instructions) = 3
    /\ \/ function.instructions[3].opcode = "JMP"
       \/ ContainsJUMP(function.instructions[3].opcode)
    /\ 2 + function.instructions[3].d + 1 = 0

\* C10: for such a function analyze_function reports exactly one LoopInfo,
\* with header the block of instruction 0, a body holding the blocks of all
\* three instructions, and loop_type 'while'.
C10_OneWhileLoop ==
    (an_calls = 1 /\ JumpsBackToStart(an_function)) =>
        /\ Len(loops) = 1
        /\ loops[1].header = find_block_by_pc(basic_blocks, 0)
        /\ \A pc \in 0..2 : find_block_by_pc(basic_blocks, pc) \in loops[1].body
        /\ loops[1].loop_type = "while"

\* the back edge that loops[i] was built from: _detect_loops appends one
\* LoopInfo per back edge, in the order of the back edges
BackEdgeOf(i) == BackEdges(basic_blocks)[i]

\* C11: for every LoopInfo built from a back edge tail -> head: head and
\* tail are in the body, and every predecessor of every block of the body
\* other than head is in the body.
C11_LoopBodyClosed ==
    an_calls = 1 =>
        /\ Len(loops) = Len(BackEdges(basic_blocks))
        /\ \A i \in 1..Len(loops) :
              /\ loops[i].header = BackEdgeOf(i)[2]
              /\ loops[i].header \in loops[i].body
              /\ BackEdgeOf(i)[1] \in loops[i].body
              /\ \A b \in loops[i].body \ {loops[i].header} :
                    basic_blocks[b].predecessors \subseteq loops[i].body

\* C11 happens: a loop whose body holds a block that is neither end of the
\* back edge, found by walking the predecessors of the tail
C11_Witness ==
    /\ an_calls = 1
    /\ \E i \in 1..Len(loops) :
          /\ loops[i].body \ {BackEdgeOf(i)[1], BackEdgeOf(i)[2]} # {}
          /\ BackEdgeOf(i)[1] # BackEdgeOf(i)[2]

\* the blocks reachable from block 0 along successor edges
ReachableBlocks == mark_reachable(basic_blocks, {0}, {})

\* C12: after _compute_dominance on a CFG built by _build_cfg, block 0 is in
\* the dominator set of every block reachable from block 0, and the
\* dominator set of block 0 is exactly {0}.
C12_EntryDominates ==
    an_calls = 1 =>
        /\ basic_blocks[0].dominators = {0}
        /\ \A b \in ReachableBlocks : 0 \in basic_blocks[b].dominators

\* C12 happens: a CFG with a block other than block 0 that is reachable
\* from block 0, and a block that is not
C12_Witness ==
    /\ an_calls = 1
    /\ ReachableBlocks \ {0} # {}
    /\ DOMAIN basic_blocks \ ReachableBlocks # {}

\* C13: the liveness fixpoint is idempotent: _compute_liveness run again
\* right after it has converged leaves the live_in and live_out set of
\* every block (and the def/use sets) as they are.
C13_LivenessIdempotent ==
    an_calls = 1 => compute_liveness(basic_blocks, data_flow) = data_flow

\* C13 happens: liveness converged on a CFG on which the first run of the
\* for loop had not yet reached the fixpoint
C13_Witness ==
    /\ an_calls = 1
    /\ LET df0 == [id \in DOMAIN basic_blocks |-> DataFlowInfo(basic_blocks[id])]
           first == LivenessPass(basic_blocks, df0, LivenessOrder(basic_blocks), FALSE)
       IN  /\ first.changed
           /\ first.df # data_flow

\* the blocks that a path of successor edges from block 0 reaches without
\* passing through block d; every path from block 0 passes through block 0
RECURSIVE ReachedAvoiding(_, _, _)
ReachedAvoiding(d, todo, reached) ==
    IF todo = {} THEN reached
    ELSE LET new == (UNION {basic_blocks[b].successors : b \in todo})
                    \ (reached \cup todo \cup {d})
         IN  ReachedAvoiding(d, new, reached \cup todo)

\* the reference definition: d dominates b if every path of successor edges
\* from block 0 to b passes through d
Dominates(d, b) ==
    \/ d = b
    \/ d = 0
    \/ b \notin ReachedAvoiding(d, {0}, {})

\* C20: after _compute_dominance, d is in dominators(b) exactly if every
\* path from block 0 to b passes through d, and the set of every block
\* other than block 0 is the block itself and what is common to the sets of
\* all its predecessors.
C20_DominatorsAreReference ==
    an_calls = 1 =>
        /\ \A b \in DOMAIN basic_blocks : \A d \in DOMAIN basic_blocks :
              d \in basic_blocks[b].dominators <=> Dominates(d, b)
        /\ \A b \in DOMAIN basic_blocks \ {0} :
              basic_blocks[b].dominators =
                  {b} \cup {d \in DOMAIN basic_blocks :
                               \A p \in basic_blocks[b].predecessors :
                                   d \in basic_blocks[p].dominators}

\* C20 happens: a block that two blocks with different dominator sets lead
\* to, so that the sets had to be intersected
C20_Witness ==
    /\ an_calls = 1
    /\ \E b \in DOMAIN basic_blocks \ {0} :
          \E p, q \in basic_blocks[b].predecessors :
              /\ basic_blocks[p].dominators \ basic_blocks[q].dominators # {}
              /\ basic_blocks[p].dominators \ basic_blocks[q].dominators # {b}

\* the registers with a non-empty set of use points / definition points in
\* block b
UsedIn(b) == {reg \in DOMAIN data_flow[b].uses : data_flow[b].uses[reg] # {}}
DefinedIn(b) ==
    {reg \in DOMAIN data_flow[b].definitions : data_flow[b].definitions[reg] # {}}

\* C21: when _compute_liveness has terminated, every block satisfies both
\* equations: live_out is the union of the live_in sets of its successors,
\* and live_in is uses together with live_out less defs.
C21_LivenessEquations ==
    an_calls = 1 =>
        \A b \in DOMAIN basic_blocks :
            /\ data_flow[b].live_out =
                   UNION {data_flow[s].live_in : s \in basic_blocks[b].successors}
            /\ data_flow[b].live_in =
                   UsedIn(b) \cup (data_flow[b].live_out \ DefinedIn(b))

\* C21 happens: a block that defines a register which is live at its exit
C21_Witness ==
    /\ an_calls = 1
    /\ \E b \in DOMAIN basic_blocks :
          /\ data_flow[b].live_out \cap DefinedIn(b) # {}
          /\ data_flow[b].live_in # data_flow[b].live_out

\* C22: analyze_function terminates for every finite instruction list: the
\* dominance loop reaches the end of a pass in which no dominator set
\* changed, the liveness loop reaches the end of a pass in which no live_in
\* set changed, and the call returns, also when the CFG has cycles or
\* unreachable blocks.
C22_AnalysisTerminates ==
    /\ (an_phase = "dominance") ~>
           (an_phase = "dominance" /\ an_ids = <<>> /\ ~an_changed)
    /\ (an_phase = "liveness") ~>
           (an_phase = "liveness" /\ an_ids = <<>> /\ ~an_changed)
    /\ (an_phase # "idle") ~> (an_phase = "returned")

\* C22 happens: a call has returned for a CFG in which a block is its own
\* successor and a block is unreachable from block 0
C22_Witness ==
    /\ an_phase = "returned"
    /\ an_calls = 1
    /\ \E id \in DOMAIN basic_blocks : id \in basic_blocks[id].successors
    /\ DOMAIN basic_blocks \ ReachableBlocks # {}

\* C23: for every LoopInfo L of the list returned by _detect_loops,
\* L.nesting_level is the number of loops of that list whose body contains
\* L.header and whose header is not L.header, whatever the order in which
\* the back edges were found.
C23_NestingCountsReturnedLoops ==
    an_calls = 1 =>
        \A i \in 1..Len(loops) :
            loops[i].nesting_level =
                Cardinality({j \in 1..Len(loops) :
                                /\ loops[i].header \in loops[j].body
                                /\ loops[j].header # loops[i].header})

\* the blocks reachable from block b along one or more successor edges
ReachableFrom(b) == mark_reachable(basic_blocks, basic_blocks[b].successors, {})

\* C27: every LoopInfo produced from a back edge tail -> head is a real
\* cycle: head is reachable from block 0 and tail is reachable from head
\* along successor edges; code without such a cycle (for example with
\* unreachable instructions after a RETURN) yields no LoopInfo.
C27_LoopsAreCycles ==
    an_calls = 1 =>
        \A i \in 1..Len(loops) :
            /\ BackEdgeOf(i)[2] \in ReachableBlocks
            /\ BackEdgeOf(i)[1] \in ReachableFrom(BackEdgeOf(i)[2]) \cup {BackEdgeOf(i)[2]}

\* the score of the claim, from the counts of the analysed function and of
\* the blocks; a ratio x/y > p/10 is written 10x > py
ClaimedScore ==
    LET instrs == an_function.instructions
        N == Len(instrs)
        jumps == Cardinality({i \in 1..N : instrs[i].opcode = "JMP"})
        constant_loads ==
            Cardinality({i \in 1..N : instrs[i].opcode \in {"LOADK", "LOADN"}})
        blocks == Cardinality(DOMAIN basic_blocks)
        unreachable_blocks == Cardinality(DOMAIN basic_blocks \ ReachableBlocks)
    IN  (IF 10 * jumps > 3 * N \/ 10 * unreachable_blocks > 2 * blocks THEN 2
         ELSE IF 10 * jumps > N THEN 1
         ELSE 0)
        + (IF 10 * constant_loads > 5 * N THEN 1 ELSE 0)

\* C24: for a function with N >= 1 instructions, the level set by
\* _detect_optimization_level is OBFUSCATED for score >= 3, AGGRESSIVE for
\* 2, BASIC for 1 and NONE for 0, where score = (2 if jumps/N > 0.3 or
\* unreachable_blocks/blocks > 0.2, else 1 if jumps/N > 0.1, else 0)
\* + (1 if constant_loads/N > 0.5, else 0).
C24_LevelFromScore ==
    (an_calls = 1 /\ Len(an_function.instructions) >= 1) =>
        optimization_level =
            CASE ClaimedScore >= 3 -> "OBFUSCATED"
              [] ClaimedScore = 2 -> "AGGRESSIVE"
              [] ClaimedScore = 1 -> "BASIC"
              [] ClaimedScore = 0 -> "NONE"

\* C24 happens: a function without JMP whose unreachable blocks and constant
\* loads make it OBFUSCATED
C24_Witness ==
    /\ an_calls = 1
    /\ Len(an_function.instructions) >= 1
    /\ \A i \in 1..Len(an_function.instructions) :
           an_function.instructions[i].opcode # "JMP"
    /\ optimization_level = "OBFUSCATED"

-----------------------------------------------------------------------------
(* Inputs of the decompiler: byte buffers laid out the way _parse_bytecode *)
(* and _parse_function read them.                                          *)

\* longest instruction list of the buffers that vary the code
MaxCodeLen == 2

\* deepest chain of nested functions in a buffer
MaxNest == 3

\* '<I': four bytes, little-endian
U32(n) == <<n % 256, (n \div 256) % 256, (n \div 65536) % 256, (n \div 16777216) % 256>>

\* a string as lines 291-296 read it: length (text and one closing byte),
\* the text, the closing byte
LuaString(text) == U32(Len(text) + 1) \o text \o <<0>>

\* the number of an opcode name
OpNum(name) == CHOOSE n \in 0..MaxOpcode : OpCodeNames[n + 1] = name

\* instruction words, with the fields where lines 331-341 look for them
ABC(name, a, b, c) ==
    <<OpNum(name) + 64 * (a % 4), (a \div 4) + 64 * (c % 4),
      (c \div 4) + 128 * (b % 2), b \div 2>>
ABx(name, a, bx) ==
    <<OpNum(name) + 64 * (a % 4), (a \div 4) + 64 * (bx % 4),
      (bx \div 4) % 256, bx \div 1024>>

\* the 12 header bytes of lines 251-280
ChunkHeader == LuaSignature \o <<LuaVersion, 0, 1, 4, 4, 4, 8, 0>>

\* the byte strings of a list, one after another
RECURSIVE Flatten(_)
Flatten(parts) == IF Len(parts) = 0 THEN <<>> ELSE Head(parts) \o Flatten(Tail(parts))

\* constants as lines 371-393 read them
NilBytes == <<0>>
BoolBytes(b) == <<1, b>>
NumberBytes == <<3, 0, 0, 0, 0, 0, 0, 240, 63>>
StringBytes(text) == <<4>> \o LuaString(text)

\* empty line info, local names and upvalue names
NoDebug == U32(0) \o U32(0) \o U32(0)

\* one function as _parse_function reads it
FunctionBytes(source, num_params, is_vararg, code, constants, protos, debug) ==
    source \o U32(0) \o U32(0) \o <<0, num_params, is_vararg, 2>>
    \o U32(Len(code)) \o Flatten(code)
    \o U32(Len(constants)) \o Flatten(constants)
    \o U32(Len(protos)) \o Flatten(protos)
    \o debug

\* "hi", and "SGVsbG8=" (the base64 text of "Hello")
TextHi == <<104, 105>>
TextB64 == <<83, 71, 86, 115, 98, 71, 56, 61>>

\* the constants of the buffers that vary the code
CodeConstants == <<StringBytes(TextHi), StringBytes(TextB64), NumberBytes>>

\* a constant index no function of the model has
FarIndex == 9

\* the instruction words of those buffers: loads and table accesses with
\* constant indices in and out of range, jumps inside and 5 past the end of
\* the list, a compare, calls and returns, and a word that is no opcode
CodeWords ==
    {ABx("LOADK", 0, 0), ABx("LOADK", 1, 1), ABx("LOADK", 0, FarIndex),
     ABx("GETGLOBAL", 0, FarIndex), ABC("GETTABLE", 0, 1, 256 + FarIndex),
     ABC("SETTABLE", 0, 256, 1), ABx("JMP", 0, 5), ABx("JMP", 0, 0),
     ABC("RETURN", 0, 2, 0), ABC("CALL", 0, 3, 1), ABC("EQ", 0, 0, 1),
     ABC("LOADNIL", 0, 2, 0), ABC("MOVE", 1, 0, 0), <<63, 0, 0, 0>>}

CodeBuffer(code) ==
    ChunkHeader \o FunctionBytes(U32(0), 0, 0, code, CodeConstants, <<>>, NoDebug)

CodeBuffers == {CodeBuffer(code) : code \in SeqsOf(CodeWords, 0, MaxCodeLen)}

\* a function that holds a chain of depth nested functions
RECURSIVE NestedBytes(_)
NestedBytes(depth) ==
    FunctionBytes(U32(0), 0, 0, <<ABC("RETURN", 0, 1, 0)>>, <<>>,
                  IF depth = 0 THEN <<>> ELSE <<NestedBytes(depth - 1)>>, NoDebug)

NestedBuffers == {ChunkHeader \o NestedBytes(depth) : depth \in 0..MaxNest}

\* a buffer with every kind of field: a source name, parameters, code,
\* constants of each type, a nested function, line info, a named and an
\* unnamed local, and an upvalue name at the very end
RichBuffer ==
    ChunkHeader
    \o FunctionBytes(LuaString(<<64, 97>>), 1, 1,
           <<ABx("LOADK", 0, 3), ABC("RETURN", 0, 2, 0)>>,
           <<NilBytes, BoolBytes(1), NumberBytes, StringBytes(TextHi), <<7>>>>,
           <<NestedBytes(0)>>,
           U32(2) \o U32(1) \o U32(1)
           \o U32(2) \o LuaString(<<120>>) \o U32(0) \o U32(0) \o U32(1)
           \o U32(1) \o LuaString(<<117, 112>>))

\* every buffer that is RichBuffer cut short
TruncatedBuffers == {SubSeq(RichBuffer, 1, n) : n \in 0..Len(RichBuffer)}

\* buffer with byte at offset replaced
WithByte(bytecode, offset, byte) == [bytecode EXCEPT ![offset + 1] = byte]

\* complete buffers whose signature or version byte is wrong
BadHeaderBuffers ==
    {WithByte(CodeBuffer(<<ABC("RETURN", 0, 1, 0)>>), o, b) :
        o \in 0..3, b \in {0, 74}}
    \cup {WithByte(CodeBuffer(<<ABC("RETURN", 0, 1, 0)>>), 4, v) : v \in {0, 80, 82}}

\* string constants: "hi"; "aGk=" (the base64 text of "hi"); "/w==" (the
\* base64 text of the byte 255, which is no UTF-8); "68" (the hex text of
\* "h"); "6869" (the hex text of "hi", and well-formed base64 as well);
\* the empty string; and "e" with an acute accent, two bytes of UTF-8
ConstantTexts ==
    {TextHi, <<97, 71, 107, 61>>, <<47, 119, 61, 61>>, <<54, 56>>,
     <<54, 56, 54, 57>>, <<>>, <<195, 169>>}

\* a function that loads its only constant, a string, and returns it
StringBuffer(text) ==
    ChunkHeader
    \o FunctionBytes(U32(0), 0, 0, <<ABx("LOADK", 0, 0), ABC("RETURN", 0, 2, 0)>>,
                     <<StringBytes(text)>>, <<>>, NoDebug)

StringBuffers == {StringBuffer(text) : text \in ConstantTexts}

DecompileInputs ==
    CodeBuffers \cup NestedBuffers \cup TruncatedBuffers \cup BadHeaderBuffers
    \cup StringBuffers

\* the buffers decompiled one after another on the same decompiler
ReuseWords == {ABx("LOADK", 0, 0), ABC("RETURN", 0, 2, 0), ABx("JMP", 0, 5)}
ReuseBuffers ==
    {CodeBuffer(code) : code \in SeqsOf(ReuseWords, 0, 2)}
    \cup {SubSeq(ChunkHeader, 1, 4)}

-----------------------------------------------------------------------------
(* Specifications of the decompiler.                                       *)

\* decompile_bytecode once on a new ApexDecompiler
FreshDecompile == \E b \in DecompileInputs : dec_calls = 0 /\ DecompileBytecode(b)

InitDecompile == AnalyzerInit /\ DecompilerInit /\ BatchIdle /\ PerfIdle
NextDecompile == FreshDecompile
SpecDecompile == InitDecompile /\ [][NextDecompile]_vars

\* up to MaxCalls decompile_bytecode calls on the same ApexDecompiler
ReuseDecompile == \E b \in ReuseBuffers : dec_calls < MaxCalls /\ DecompileBytecode(b)

InitDecompileReuse == AnalyzerInit /\ DecompilerInit /\ BatchIdle /\ PerfIdle
NextDecompileReuse == ReuseDecompile
SpecDecompileReuse == InitDecompileReuse /\ [][NextDecompileReuse]_vars

-----------------------------------------------------------------------------
(* The analyzer on functions parsed by _parse_bytecode: their instructions *)
(* are Instruction objects, whose opcode names are those of OpCode and     *)
(* whose d field is the unsigned Bx field.                                 *)

\* the instruction words of the analysed buffers: plain ones, the
\* block-ending CALL and RETURN, a TAILCALL, a compare, and JMPs whose d
\* leads to the next instruction and over it
AnalysedWords ==
    {ABC("MOVE", 0, 1, 0), ABx("LOADK", 1, 0), ABC("CALL", 0, 1, 1),
     ABC("RETURN", 0, 1, 0), ABC("TAILCALL", 0, 1, 0), ABC("EQ", 0, 0, 1),
     ABx("JMP", 0, 0), ABx("JMP", 0, 1)}

AnalysedBuffers == {CodeBuffer(code) : code \in SeqsOf(AnalysedWords, 0, MaxInstr)}

\* analyzer.analyze_function(decompiler._parse_bytecode(bytecode)) on a new
\* analyzer
AnalyzeParsed ==
    \E b \in AnalysedBuffers :
        /\ an_calls = 0
        /\ parse_bytecode(b).ok
        /\ AnalyzeFunction(parse_bytecode(b).function)

InitAnalyzeParsed == AnalyzerInit /\ DecompilerInit /\ BatchIdle /\ PerfIdle
NextAnalyzeParsed == AnalyzeParsed
SpecAnalyzeParsed == InitAnalyzeParsed /\ [][NextAnalyzeParsed]_vars

\* the last instruction of a block
LastInstr(block) == block.instructions[Len(block.instructions)]

\* C18: a block whose last instruction is a JMP with an in-range target has
\* exactly one successor, the block that holds the jump target.
C18_JumpHasOneSuccessor ==
    an_calls = 1 =>
        \A id \in DOMAIN basic_blocks :
            LET block == basic_blocks[id]
                target == block.end_pc + LastInstr(block).d + 1
            IN  (/\ block.instructions # <<>>
                 /\ LastInstr(block).opcode = "JMP"
                 /\ 0 <= target /\ target < Len(an_function.instructions))
                => block.successors = {find_block_by_pc(basic_blocks, target)}

\* C19: every block whose last instruction is RETURN or TAILCALL has no
\* successors.
C19_ReturnHasNoSuccessor ==
    an_calls = 1 =>
        \A id \in DOMAIN basic_blocks :
            (/\ basic_blocks[id].instructions # <<>>
             /\ LastInstr(basic_blocks[id]).opcode \in {"RETURN", "TAILCALL"})
            => basic_blocks[id].successors = {}

-----------------------------------------------------------------------------
(* Claims about the decompiler.                                            *)

\* what _parse_bytecode makes of the buffer of the latest call
Parsed == parse_bytecode(dec_bytecode)

\* C3: files share no state: whatever a decompiler has decompiled before,
\* the text it returns for a buffer is the text a new ApexDecompiler returns
\* for that buffer.
C3_FilesShareNoState ==
    dec_calls >= 1 =>
        dec_source = decompile_bytecode(FreshDecompiler, dec_bytecode).result

\* a field with a declared length extends beyond the last byte of the
\* buffer: followed field by field as _parse_function follows them, the
\* fields of the main function end at an offset past the end of the buffer
ReadsPastEnd(bytecode) ==
    /\ Len(bytecode) >= HeaderSize
    /\ parse_function(bytecode, HeaderSize).ok
    /\ parse_function(bytecode, HeaderSize).offset > Len(bytecode)

\* C5: for a buffer in which a length-prefixed field extends beyond the last
\* byte, _parse_bytecode raises an error and returns no Function, and
\* decompile_bytecode returns the failure text.
C5_OverrunFails ==
    (dec_calls = 1 /\ ReadsPastEnd(dec_bytecode)) =>
        /\ ~Parsed.ok
        /\ dec_source.kind = "failed"

\* the buffer is shorter than the header, or its signature or its version
\* byte is wrong
BadHeader(bytecode) ==
    \/ Len(bytecode) < 12
    \/ SubSeq(bytecode, 1, 4) # <<27, 76, 117, 97>>
    \/ bytecode[5] # 81

\* the errors of the header tests
HeaderErrors ==
    {"Invalid bytecode: too short", "Invalid Lua bytecode signature",
     "Unsupported Lua version"}

\* C6: for a buffer with a bad header _parse_bytecode fails with a header
\* error and parses no function, decompile_bytecode returns the failure
\* text, and the decompiler holds nothing of the buffer.
C6_BadHeaderFails ==
    (dec_calls = 1 /\ BadHeader(dec_bytecode)) =>
        /\ ~Parsed.ok
        /\ Parsed.error[1] \in HeaderErrors
        /\ dec_source = FailedText(Parsed.error)
        /\ Decompiler = FreshDecompiler

\* C6 happens: a complete buffer with a good signature and a wrong version
\* byte has been refused
C6_Witness ==
    /\ dec_calls = 1
    /\ BadHeader(dec_bytecode)
    /\ Len(dec_bytecode) > 12
    /\ SubSeq(dec_bytecode, 1, 4) = <<27, 76, 117, 97>>
    /\ dec_source.kind = "failed"

\* how deep the functions nested in a function go
RECURSIVE NestingDepth(_)
NestingDepth(function) ==
    IF Len(function.protos) = 0 THEN 0
    ELSE 1 + Max({NestingDepth(function.protos[i]) : i \in 1..Len(function.protos)})

\* C7: nesting is bounded: there is a bound D, below the deepest nesting
\* the buffers hold, such that no parse succeeds on functions nested deeper
\* than D.
C7_NestingBounded ==
    \E D \in 0..(MaxNest - 1) :
        (dec_calls = 1 /\ Parsed.ok) => NestingDepth(Parsed.function) <= D

\* C8: decompile_bytecode returns a text for every buffer, and for every
\* Function that _parse_bytecode returns, _generate_source returns text and
\* that text is what decompile_bytecode returns.
C8_SynthesizerNeverThrows ==
    dec_calls = 1 =>
        /\ dec_source.kind \in {"source", "failed"}
        /\ Parsed.ok =>
              /\ generate_source(variable_map, deobfuscation_stats,
                     apply_deobfuscation(Parsed.function).function).ok
              /\ dec_source.kind = "source"

\* C8 happens: a function with a LOADK whose constant index is out of range
\* has been turned into text
C8_Witness ==
    /\ dec_calls = 1
    /\ Parsed.ok
    /\ \E i \in 1..Len(Parsed.function.instructions) :
          /\ Parsed.function.instructions[i].opcode = "LOADK"
          /\ Parsed.function.instructions[i].d >= Len(Parsed.function.constants)
    /\ dec_source.kind = "source"

\* instruction i is a JMP to instruction_count + 5, and the only jump that
\* leaves the instruction list
FarJumpAt(function, i) ==
    /\ function.instructions[i + 1].opcode = "JMP"
    /\ i + function.instructions[i + 1].aux + 1 = Len(function.instructions) + 5
    /\ detect_control_flow_obfuscation(function.instructions) = {i}

\* C9: for a JMP at i whose target is instruction_count + 5,
\* decompile_bytecode returns source text, counts one suspicious jump, and
\* the graph has no edge from i to that target.
C9_DanglingEdgeOmitted ==
    (dec_calls = 1 /\ Parsed.ok) =>
        \A i \in 0..(Len(Parsed.function.instructions) - 1) :
            FarJumpAt(Parsed.function, i) =>
                /\ dec_source.kind = "source"
                /\ deobfuscation_stats.suspicious_jumps = 1
                /\ ~(/\ i \in DOMAIN cfg.edges
                     /\ \E k \in 1..Len(cfg.edges[i]) :
                           cfg.edges[i][k][1] = Len(Parsed.function.instructions) + 5)

\* the texts a string stands for: what its base64 reading decodes to when
\* it passes the base64 test, and what its hex reading decodes to when it
\* passes the hex test
DecodedTexts(s) ==
    {DecodeStrict(B64Decode(s).bytes, 1, <<>>).text : x \in
        {y \in {1} : /\ is_base64_encoded(s)
                     /\ DecodeStrict(B64Decode(s).bytes, 1, <<>>).ok}}
    \cup {DecodeStrict(FromHex(s), 1, <<>>).text : x \in
        {y \in {1} : /\ is_hex_encoded(s)
                     /\ DecodeStrict(FromHex(s), 1, <<>>).ok}}

\* the string constants (1-based positions) that pass the base64 test or
\* the hex test
PassingStrings(constants) ==
    {i \in 1..Len(constants) :
        /\ constants[i].t = "str"
        /\ is_base64_encoded(constants[i].v) \/ is_hex_encoded(constants[i].v)}

\* C14: a string constant that passes the base64 test or the hex test is
\* replaced by its decoded text and counted in deobfuscated_strings; a
\* string that passes neither test is left as it is and is not counted.
C14_PassingStringsDecoded ==
    (dec_calls = 1 /\ Parsed.ok) =>
        LET before == Parsed.function.constants
            after == apply_deobfuscation(Parsed.function).function.constants
        IN  /\ \A i \in PassingStrings(before) :
                  /\ after[i].t = "str"
                  /\ after[i].v \in DecodedTexts(before[i].v)
            /\ \A i \in (1..Len(before)) \ PassingStrings(before) :
                  after[i] = before[i]
            /\ deobfuscation_stats.deobfuscated_strings
                   = Cardinality(PassingStrings(before))

\* the number of closures of a parsed tree: the function and, recursively,
\* the functions nested in it
RECURSIVE ClosureCount(_)
ClosureCount(function) ==
    LET RECURSIVE nested(_)
        nested(i) == IF i = 0 THEN 0
                     ELSE ClosureCount(function.protos[i]) + nested(i - 1)
    IN  1 + nested(Len(function.protos))

\* the function bodies of a text: the lines that open one
FunctionBodies(lines) ==
    Cardinality({i \in 1..Len(lines) :
                    /\ Len(lines[i]) >= 1
                    /\ lines[i][1] \in {Lit("function()"), Lit("function(")}})

\* C15: for a buffer whose top-level function has nested closures, the text
\* of decompile_bytecode holds one function body for every closure of the
\* parsed tree, the top-level function and every nested one.
C15_EveryClosureSynthesized ==
    (dec_calls = 1 /\ Parsed.ok /\ Len(Parsed.function.protos) > 0) =>
        /\ dec_source.kind = "source"
        /\ FunctionBodies(dec_source.lines) = ClosureCount(Parsed.function)

\* the instruction word is no defined operation: its opcode number, the
\* low 6 bits of the word, is greater than 37
UnrecognizedWord(instr) == instr.raw_data[1] % 64 > MaxOpcode

\* the line is the raw comment of line 683: "-- ", the operation kind, and
\* the operand values
IsRawComment(line) ==
    /\ Len(line) = 9
    /\ line[1] = Lit("-- ")
    /\ line[3] = Lit(" R(")

\* C16: a buffer of well-formed code parses whether or not it holds words
\* that are no defined operation, and the line synthesized for such a word
\* is the raw comment, not a statement.
C16_UnrecognizedIsComment ==
    (dec_calls = 1 /\ dec_bytecode \in CodeBuffers) =>
        /\ Parsed.ok
        /\ \A i \in 1..Len(Parsed.function.instructions) :
              UnrecognizedWord(Parsed.function.instructions[i]) =>
                  IsRawComment(instruction_to_source(variable_map,
                      Parsed.function.instructions[i],
                      apply_deobfuscation(Parsed.function).function))

\* the function [LOADK A=0 Bx=0, RETURN A=0 B=2] with the one constant "hi"
LoadsAndReturnsHi(function) ==
    /\ Len(function.instructions) = 2
    /\ function.instructions[1].opcode = "LOADK"
    /\ function.instructions[1].a = 0 /\ function.instructions[1].d = 0
    /\ function.instructions[2].opcode = "RETURN"
    /\ function.instructions[2].a = 0 /\ function.instructions[2].b = 2
    /\ function.constants = <<Const("str", TextHi)>>

\* C17: for that function decompile_bytecode emits, as the body, a line
\* that binds a name to "hi" and then the line 'return' of the same name,
\* and it reports zero deobfuscated strings and zero suspicious jumps.
C17_LoadThenReturn ==
    (dec_calls = 1 /\ Parsed.ok /\ LoadsAndReturnsHi(Parsed.function)) =>
        /\ dec_source.kind = "source"
        /\ Len(dec_source.lines) = 12
        /\ \E name \in {dec_source.lines[6][3]} :
              /\ name.k = "name"
              /\ dec_source.lines[6] =
                     <<Lit("    "), Lit("local "), name, Lit(" = \""),
                       Text(TextHi), Lit("\"")>>
              /\ dec_source.lines[7] = <<Lit("    "), Lit("return "), name>>
        /\ dec_source.lines[8] = <<Lit("end")>>
        /\ deobfuscation_stats.deobfuscated_strings = 0
        /\ deobfuscation_stats.suspicious_jumps = 0
        /\ dec_source.lines[11] = <<Lit("-- Strings deobfuscated: "), Num(0)>>
        /\ dec_source.lines[12] = <<Lit("-- Suspicious jumps detected: "), Num(0)>>

\* C17 happens: that function has been decompiled to source text
C17_Witness ==
    /\ dec_calls = 1
    /\ Parsed.ok
    /\ LoadsAndReturnsHi(Parsed.function)
    /\ dec_source.kind = "source"

\* the lines of the text between the signature, which is line 5, and the
\* first line 'end'
StatementLines(lines) ==
    Min({i \in 1..Len(lines) : lines[i] = <<Lit("end")>>}) - 6

\* C25: one line per instruction: for a parsed function with N instructions
\* the text of _generate_source has exactly N statement lines between the
\* signature and the closing 'end', whatever the opcodes and operands, also
\* with constant indices that are out of range.
C25_OneLinePerInstruction ==
    (dec_calls = 1 /\ Parsed.ok /\ dec_source.kind = "source") =>
        StatementLines(dec_source.lines) = Len(Parsed.function.instructions)

\* C28: after every decompile_bytecode call the statistics describe the
\* input of that call: when the call returned the failure text, the
\* statistics the caller sees carry no count of deobfuscated strings or of
\* suspicious jumps from an input decompiled before.
C28_StatsOfThisCall ==
    (dec_calls >= 1 /\ dec_source.kind = "failed") =>
        \/ ~deobfuscation_stats.set
        \/ /\ deobfuscation_stats.deobfuscated_strings = 0
           /\ deobfuscation_stats.suspicious_jumps = 0

-----------------------------------------------------------------------------
(* OptimizedDecompiler.batch_decompile (src/src/performance/               *)
(* optimizations.py): the buffers are cut into chunks, each chunk is a     *)
(* task of a thread pool, and every task calls decompile_bytecode of the   *)
(* one base decompiler, whose _parse_function and _instruction_to_source   *)
(* go through the caches of _apply_optimizations.  A worker is followed    *)
(* in two steps per buffer: lines 226-235 of decompile_bytecode, then the  *)
(* _generate_source call of line 238; other workers run between them.      *)

\* ParallelProcessor(): max_workers (line 167)
max_workers == 4

\* len(items) < 10: shorter lists are mapped without threads (line 175)
ParallelThreshold == 10

\* chunk_size=max(1, len(bytecode_files) // 4) (line 301)
ChunkDivisor == 4
chunk_size(n) == Max({1, n \div ChunkDivisor})

\* number of buffers given to batch_decompile
BatchLen == 10

\* range(0, len(items), chunk_size): where the chunks start
ChunkStarts(n) == {i \in 0..(n - 1) : i % chunk_size(n) = 0}

\* the indices of items[i:i + chunk_size]
ChunkItems(n, start) == start..(Min({n, start + chunk_size(n)}) - 1)

\* cached_function on _parse_function: the (Function, offset) stored under
\* the arguments (bytecode, 12) is returned again, the same object; the
\* buffers of a batch hold no nested functions, so this is the only call
CachedParseFunction(cache, bytecode) ==
    IF bytecode \in DOMAIN cache
    THEN [ok |-> TRUE, function |-> cache[bytecode].function,
          offset |-> cache[bytecode].offset]
    ELSE parse_function(bytecode, HeaderSize)

\* cached_function on _instruction_to_source, inside the loop of lines
\* 546-549: the key is made of the instruction and the function, not of
\* the names the text is written with
RECURSIVE CachedSourceLinesFrom(_, _, _, _, _)
CachedSourceLinesFrom(cache, names, function, i, acc) ==
    IF i > Len(function.instructions) THEN [lines |-> acc, cache |-> cache]
    ELSE LET key == <<function.instructions[i], function>>
             source_line == IF key \in DOMAIN cache THEN cache[key]
                            ELSE instruction_to_source(names,
                                     function.instructions[i], function)
         IN  CachedSourceLinesFrom(Put(cache, key, source_line), names, function,
                                   i + 1, WithLine(acc, source_line))

\* the worker of a chunk goes on to its next buffer, or is done
NextItem(start, chunk) ==
    IF chunk.item + 1 \in ChunkItems(Len(bytecode_files), start)
    THEN [chunk EXCEPT !.item = @ + 1, !.pc = "analyse"]
    ELSE [chunk EXCEPT !.status = "done"]

\* the executor gives the oldest waiting chunk to a worker, when fewer
\* than max_workers chunks are being worked on
StartChunk(start) ==
    /\ chunks[start].status = "queued"
    /\ \A s \in DOMAIN chunks : s < start => chunks[s].status # "queued"
    /\ Cardinality({s \in DOMAIN chunks : chunks[s].status = "running"}) < max_workers
    /\ chunks' = [chunks EXCEPT ![start].status = "running"]
    /\ UNCHANGED <<anVars, perfVars, decVars, bytecode_files, results, parse_function_cache,
                   instruction_to_source_cache>>

\* lines 229-235 on the parsed function: its constants are rewritten in
\* the object the cache holds, the statistics, the graph and the names of
\* the base decompiler are set
Analysed(start, bytecode, main_function, deobfuscated) ==
    /\ parse_function_cache' =
          Put(parse_function_cache, bytecode,
              [function |-> deobfuscated.function, offset |-> main_function.offset])
    /\ deobfuscation_stats' = deobfuscated.deobfuscation_stats
    /\ cfg' = decompiler_build_cfg(cfg, deobfuscated.function)
    /\ variable_map' = recover_variables(variable_map, type_inference,
                                         deobfuscated.function).variable_map
    /\ type_inference' = recover_variables(variable_map, type_inference,
                                           deobfuscated.function).type_inference
    /\ chunks' = [chunks EXCEPT ![start].pc = "generate"]
    /\ UNCHANGED results

\* the exception of _parse_bytecode becomes the text of line 243
ParseFailed(start, main_function) ==
    /\ results' = [results EXCEPT ![chunks[start].item] = FailedText(main_function.error)]
    /\ chunks' = [chunks EXCEPT ![start] = NextItem(start, chunks[start])]
    /\ UNCHANGED <<parse_function_cache, deobfuscation_stats, cfg, variable_map,
                   type_inference>>

\* lines 226-235 for the buffer the worker is at
AnalyseParsed(start, bytecode, main_function) ==
    IF ~main_function.ok THEN ParseFailed(start, main_function)
    ELSE Analysed(start, bytecode, main_function,
                  apply_deobfuscation(main_function.function))

Analyse(start) ==
    /\ chunks[start].status = "running"
    /\ chunks[start].pc = "analyse"
    /\ AnalyseParsed(start, bytecode_files[chunks[start].item + 1],
           HeaderChecked(bytecode_files[chunks[start].item + 1],
               CachedParseFunction(parse_function_cache,
                                   bytecode_files[chunks[start].item + 1])))
    /\ UNCHANGED <<anVars, perfVars, bytecode_files, instruction_to_source_cache,
                   dec_bytecode, dec_source, dec_calls>>

\* line 238, and the result of the buffer is put in its place
Generated(start, function, body) ==
    /\ results' = [results EXCEPT ![chunks[start].item] =
          SourceText(SourceOf(variable_map, deobfuscation_stats, function,
                              body.lines).lines)]
    /\ instruction_to_source_cache' = body.cache
    /\ chunks' = [chunks EXCEPT ![start] = NextItem(start, chunks[start])]

Generate(start) ==
    /\ chunks[start].status = "running"
    /\ chunks[start].pc = "generate"
    /\ Generated(start,
           parse_function_cache[bytecode_files[chunks[start].item + 1]].function,
           CachedSourceLinesFrom(instruction_to_source_cache, variable_map,
               parse_function_cache[bytecode_files[chunks[start].item + 1]].function,
               1, <<>>))
    /\ UNCHANGED <<anVars, perfVars, decVars, bytecode_files, parse_function_cache>>

-----------------------------------------------------------------------------
(* Inputs and specification of batch_decompile.                            *)

\* a buffer with one LOADK and one string constant
BatchBuffer(text) ==
    ChunkHeader
    \o FunctionBytes(U32(0), 0, 0, <<ABx("LOADK", 0, 0)>>, <<StringBytes(text)>>,
                     <<>>, NoDebug)

\* the text of buffer i: base64 text of one letter, or two plain letters
BatchText(i) == IF i % 2 = 0 THEN B64Encode(<<65 + i>>) ELSE <<104, 105 + i>>

\* the lists given to batch_decompile: buffers that all differ, and two
\* buffers in turn
Batches ==
    {[i \in 1..BatchLen |-> BatchBuffer(BatchText(i))],
     [i \in 1..BatchLen |-> BatchBuffer(BatchText(i % 2))]}

\* batch_decompile(bytecode_files) on a new OptimizedDecompiler, for a list
\* long enough for the thread pool: every chunk is submitted
InitBatch ==
    /\ AnalyzerInit
    /\ DecompilerInit
    /\ PerfIdle
    /\ bytecode_files \in Batches
    /\ Len(bytecode_files) > 1
    /\ Len(bytecode_files) >= ParallelThreshold
    /\ chunks = [start \in ChunkStarts(Len(bytecode_files)) |->
                    [status |-> "queued", item |-> start, pc |-> "analyse"]]
    /\ results = [i \in 0..(Len(bytecode_files) - 1) |-> NoText]
    /\ parse_function_cache = <<>>
    /\ instruction_to_source_cache = <<>>

NextBatch ==
    \E start \in DOMAIN chunks : StartChunk(start) \/ Analyse(start) \/ Generate(start)

SpecBatch == InitBatch /\ [][NextBatch]_vars

\* every chunk is done: parallel_map returns results
BatchDone ==
    /\ Len(bytecode_files) > 0
    /\ \A start \in DOMAIN chunks : chunks[start].status = "done"

\* C4: buffers decompiled by the workers of batch_decompile come out as
\* they do alone: when the batch is done, every text of the result is the
\* text a new ApexDecompiler returns for that buffer.
C4_BatchEqualsAlone ==
    BatchDone =>
        \A i \in 0..(Len(bytecode_files) - 1) :
            results[i] = decompile_bytecode(FreshDecompiler, bytecode_files[i + 1]).result

-----------------------------------------------------------------------------
(* OptimizedDecompiler.decompile_bytecode called again and again by one    *)
(* thread: the call is passed on to the base decompiler (line 284), whose  *)
(* _parse_function and _instruction_to_source go through the caches.       *)

\* lines 238-240 with the cached _instruction_to_source: the fields, the
\* caches and the text the call leaves
CachedReturns(bytecode, main_function, deobfuscated, recovered, body) ==
    /\ parse_function_cache' =
          Put(parse_function_cache, bytecode,
              [function |-> deobfuscated.function, offset |-> main_function.offset])
    /\ instruction_to_source_cache' = body.cache
    /\ deobfuscation_stats' = deobfuscated.deobfuscation_stats
    /\ cfg' = decompiler_build_cfg(cfg, deobfuscated.function)
    /\ variable_map' = recovered.variable_map
    /\ type_inference' = recovered.type_inference
    /\ dec_source' = SourceText(SourceOf(recovered.variable_map,
                                         deobfuscated.deobfuscation_stats,
                                         deobfuscated.function, body.lines).lines)

\* lines 235-238: the names are recovered and the lines generated with them
CachedRecovered(bytecode, main_function, deobfuscated, recovered) ==
    CachedReturns(bytecode, main_function, deobfuscated, recovered,
                  CachedSourceLinesFrom(instruction_to_source_cache,
                                        recovered.variable_map,
                                        deobfuscated.function, 1, <<>>))

\* lines 229-235: deobfuscation rewrites the constants of the Function
\* object that _parse_function returned, which is the object the cache holds
CachedDeobfuscated(bytecode, main_function, deobfuscated) ==
    CachedRecovered(bytecode, main_function, deobfuscated,
                    recover_variables(variable_map, type_inference,
                                      deobfuscated.function))

\* lines 226-243 after _parse_bytecode: its exception becomes the text of
\* line 243 and leaves fields and caches as they were
CachedParsed(bytecode, main_function) ==
    IF ~main_function.ok
    THEN /\ dec_source' = FailedText(main_function.error)
         /\ UNCHANGED <<parse_function_cache, instruction_to_source_cache,
                        deobfuscation_stats, cfg, variable_map, type_inference>>
    ELSE CachedDeobfuscated(bytecode, main_function,
                            apply_deobfuscation(main_function.function))

\* one call optimized.decompile_bytecode(bytecode), for a buffer of at most
\* 1 MB (lines 274 and 287 are not taken)
CachedDecompileBytecode(bytecode) ==
    /\ CachedParsed(bytecode,
           HeaderChecked(bytecode,
               CachedParseFunction(parse_function_cache, bytecode)))
    /\ dec_bytecode' = bytecode
    /\ dec_calls' = dec_calls + 1
    /\ UNCHANGED <<anVars, perfVars, bytecode_files, chunks, results>>

\* the buffers decompiled through one OptimizedDecompiler: one string
\* constant each, loaded by the only instruction, and a buffer that is too
\* short
CachedBuffers == StringBuffers \cup {BatchBuffer(BatchText(i)) : i \in 1..4}
                 \cup {SubSeq(ChunkHeader, 1, 4)}

\* up to MaxCalls decompile_bytecode calls on a new OptimizedDecompiler
CachedDecompile ==
    \E b \in CachedBuffers : dec_calls < MaxCalls /\ CachedDecompileBytecode(b)

InitCached == AnalyzerInit /\ DecompilerInit /\ BatchIdle /\ PerfIdle
NextCached == CachedDecompile
SpecCached == InitCached /\ [][NextCached]_vars

\* C26: caching is transparent: the text a call through one
\* OptimizedDecompiler returns for a buffer, also for a buffer it has
\* decompiled before, is the text a new ApexDecompiler returns for that
\* buffer; a hit in the parse_function cache changes neither the constants
\* deobfuscation sees nor the count of deobfuscated strings it reports.
C26_CachingTransparent ==
    dec_calls >= 1 =>
        dec_source = decompile_bytecode(FreshDecompiler, dec_bytecode).result

-----------------------------------------------------------------------------
(* CacheManager.cached_function (src/src/performance/optimizations.py):    *)
(* the wrapper it returns, called again and again by one thread.           *)

\* largest max_size given to cached_function
MaxCacheSize == 3

\* number of calls of the wrapper that are followed
MaxCacheCalls == 6

\* the arguments the wrapper is called with: one more than fit the cache
CacheArgs == 0..MaxCacheSize

\* _make_cache_key: the digest of the text of the arguments; different
\* arguments of CacheArgs have different texts
make_cache_key(args) == <<"md5", args>>

\* func(*args, **kwargs): the wrapped function
WrappedFunc(args) == 2 * args

\* the keys of the dict
CacheKeys(cache) == {cache[i].key : i \in 1..Len(cache)}

\* a full cache loses its newest entry
EvictedNewest(cache, max_size) ==
    IF Len(cache) >= max_size THEN SubSeq(cache, 1, Len(cache) - 1) ELSE cache

\* lines 120-124: a full cache loses next(iter(cache)), the first entry of
\* the dict
Evicted(cache, max_size) ==
    IF Len(cache) >= max_size THEN Tail(cache) ELSE cache

\* lines 106-127: one call of the wrapper
CachedCall(args) ==
    /\ hit_counts + miss_counts < MaxCacheCalls
    /\ IF make_cache_key(args) \in CacheKeys(cm_cache)
       THEN /\ hit_counts' = hit_counts + 1
            /\ UNCHANGED <<cm_cache, miss_counts>>
       ELSE /\ miss_counts' = miss_counts + 1
            /\ cm_cache' = Append(Evicted(cm_cache, cm_max_size),
                                  [key |-> make_cache_key(args),
                                   value |-> WrappedFunc(args),
                                   call |-> hit_counts + miss_counts + 1])
            /\ UNCHANGED hit_counts
    /\ UNCHANGED <<cm_max_size, pm_items, pm_chunk_size, pm_futures, pm_results,
                   pm_pc, pm_overtaken, anVars, decVars, batchVars>>

\* cached_function(cache_name, max_size) on a new CacheManager
InitCache ==
    /\ AnalyzerInit
    /\ DecompilerInit
    /\ BatchIdle
    /\ cm_cache = <<>>
    /\ cm_max_size \in 1..MaxCacheSize
    /\ hit_counts = 0
    /\ miss_counts = 0
    /\ pm_items = <<>>
    /\ pm_chunk_size = 0
    /\ pm_futures = <<>>
    /\ pm_results = <<>>
    /\ pm_pc = "call"
    /\ pm_overtaken = FALSE

NextCache == \E args \in CacheArgs : CachedCall(args)
SpecCache == InitCache /\ [][NextCache]_vars

\* the entry that was put into the cache before all others it holds
OldestEntry(cache) ==
    CHOOSE e \in Range(cache) : \A f \in Range(cache) : e.call <= f.call

\* C29: after every call of the wrapper the cache holds at most max_size
\* entries, the call has incremented exactly one of the hit and miss
\* counters, and a miss on a full cache has evicted exactly the entry
\* inserted before all others.
C29_CacheBoundedFifo ==
    [][/\ Len(cm_cache') <= cm_max_size
       /\ \/ hit_counts' = hit_counts + 1 /\ miss_counts' = miss_counts
          \/ hit_counts' = hit_counts /\ miss_counts' = miss_counts + 1
       /\ (miss_counts' = miss_counts + 1 /\ Len(cm_cache) = cm_max_size) =>
              Range(cm_cache) \ Range(cm_cache') = {OldestEntry(cm_cache)}]_vars

\* C29 happens: a cache of two or more entries is full after an eviction
\* and a hit
C29_Witness ==
    /\ cm_max_size >= 2
    /\ Len(cm_cache) = cm_max_size
    /\ miss_counts > cm_max_size
    /\ hit_counts >= 1

-----------------------------------------------------------------------------
(* ParallelProcessor.parallel_map (src/src/performance/optimizations.py):  *)
(* one call; the executor runs up to max_workers chunks at a time, the     *)
(* workers finish in any order, and the caller takes the results of the    *)
(* futures in the order of submission.                                     *)

\* largest chunk_size given, besides one larger than every list
MaxChunkSize == 3

\* None in the list results
NoResult == 0 - 1

\* func(item)
MapFunc(item) == item * item + 1

\* the lists given as items: none, fewer than the threshold of line 175,
\* and as many or one more
ItemLists ==
    {[i \in 1..n |-> (7 * i) % 5] :
        n \in {0, ParallelThreshold - 1, ParallelThreshold, ParallelThreshold + 1}}

\* the values given as chunk_size: None (written 0), small ones, and one
\* larger than every list
ChunkSizes == 0..MaxChunkSize \cup {ParallelThreshold + 2}

\* lines 178-179: the chunk size used
UsedChunkSize(items, size) ==
    IF size = 0 THEN Max({1, Len(items) \div max_workers}) ELSE size

\* range(0, len(items), chunk_size)
RangeStarts(n, size) == {i \in 0..(n - 1) : i % size = 0}

\* _process_chunk on items[start:start + chunk_size]
process_chunk(items, start, size) ==
    [j \in 1..(Min({Len(items), start + size}) - start) |-> MapFunc(items[start + j])]

\* every result is written at its place in the chunk
IndexInChunk(start_idx, j) == j

\* line 194: results[start_idx + j]
ResultIndex(start_idx, j) == start_idx + j

\* lines 193-194: the results of one chunk are written into results
Collected(res, start_idx, chunk_results) ==
    [i \in DOMAIN res |->
        IF \E j \in 0..(Len(chunk_results) - 1) : ResultIndex(start_idx, j) = i
        THEN chunk_results[(CHOOSE j \in 0..(Len(chunk_results) - 1) :
                                ResultIndex(start_idx, j) = i /\
                                \A k \in 0..(Len(chunk_results) - 1) :
                                    ResultIndex(start_idx, k) = i => k <= j) + 1]
        ELSE res[i]]

\* lines 175-189: a short list is mapped by the caller itself; otherwise
\* results is filled with None and every chunk is submitted
ParallelMapCall ==
    /\ pm_pc = "call"
    /\ IF Len(pm_items) < ParallelThreshold
       THEN /\ pm_results' = [i \in 0..(Len(pm_items) - 1) |-> MapFunc(pm_items[i + 1])]
            /\ pm_pc' = "returned"
            /\ UNCHANGED pm_futures
       ELSE /\ pm_results' = [i \in 0..(Len(pm_items) - 1) |-> NoResult]
            /\ pm_futures' =
                  [start \in RangeStarts(Len(pm_items),
                                         UsedChunkSize(pm_items, pm_chunk_size)) |->
                      [status |-> "queued", result |-> <<>>]]
            /\ pm_pc' = "collect"
    /\ UNCHANGED <<pm_items, pm_chunk_size, pm_overtaken, cm_cache, cm_max_size,
                   hit_counts, miss_counts, anVars, decVars, batchVars>>

\* the executor gives the chunk submitted first among the waiting ones to a
\* worker, when fewer than max_workers chunks are being worked on
WorkerStarts(start) ==
    /\ pm_futures[start].status = "queued"
    /\ \A s \in DOMAIN pm_futures : s < start => pm_futures[s].status # "queued"
    /\ Cardinality({s \in DOMAIN pm_futures : pm_futures[s].status = "running"})
          < max_workers
    /\ pm_futures' = [pm_futures EXCEPT ![start].status = "running"]
    /\ UNCHANGED <<pm_items, pm_chunk_size, pm_results, pm_pc, pm_overtaken,
                   cm_cache, cm_max_size, hit_counts, miss_counts,
                   anVars, decVars, batchVars>>

\* lines 199-201: a worker has processed its chunk, the future holds the
\* list of results
WorkerFinishes(start) ==
    /\ pm_futures[start].status = "running"
    /\ pm_futures' =
          [pm_futures EXCEPT ![start] =
              [status |-> "done",
               result |-> process_chunk(pm_items, start,
                                        UsedChunkSize(pm_items, pm_chunk_size))]]
    /\ pm_overtaken' =
          (pm_overtaken \/ \E s \in DOMAIN pm_futures :
                               s < start /\ pm_futures[s].status \in {"queued", "running"})
    /\ UNCHANGED <<pm_items, pm_chunk_size, pm_results, pm_pc,
                   cm_cache, cm_max_size, hit_counts, miss_counts,
                   anVars, decVars, batchVars>>

\* lines 191-194: future.result() of the next future of the list returns
\* once its chunk is done, and the results are written
CollectNext(start) ==
    /\ pm_pc = "collect"
    /\ pm_futures[start].status = "done"
    /\ \A s \in DOMAIN pm_futures : s < start => pm_futures[s].status = "collected"
    /\ pm_results' = Collected(pm_results, start, pm_futures[start].result)
    /\ pm_futures' = [pm_futures EXCEPT ![start].status = "collected"]
    /\ UNCHANGED <<pm_items, pm_chunk_size, pm_pc, pm_overtaken,
                   cm_cache, cm_max_size, hit_counts, miss_counts,
                   anVars, decVars, batchVars>>

\* line 196: every future has been taken, results is returned
ParallelMapReturns ==
    /\ pm_pc = "collect"
    /\ \A s \in DOMAIN pm_futures : pm_futures[s].status = "collected"
    /\ pm_pc' = "returned"
    /\ UNCHANGED <<pm_items, pm_chunk_size, pm_futures, pm_results, pm_overtaken,
                   cm_cache, cm_max_size, hit_counts, miss_counts,
                   anVars, decVars, batchVars>>

\* parallel_map(func, items, chunk_size) on a new ParallelProcessor
InitParallelMap ==
    /\ AnalyzerInit
    /\ DecompilerInit
    /\ BatchIdle
    /\ cm_cache = <<>>
    /\ cm_max_size = 1
    /\ hit_counts = 0
    /\ miss_counts = 0
    /\ pm_items \in ItemLists
    /\ pm_chunk_size \in ChunkSizes
    /\ pm_futures = <<>>
    /\ pm_results = <<>>
    /\ pm_pc = "call"
    /\ pm_overtaken = FALSE

NextParallelMap ==
    \/ ParallelMapCall
    \/ \E start \in DOMAIN pm_futures :
          WorkerStarts(start) \/ WorkerFinishes(start) \/ CollectNext(start)
    \/ ParallelMapReturns

SpecParallelMap == InitParallelMap /\ [][NextParallelMap]_vars

\* C30: parallel_map keeps order and length: for every list of items,
\* every chunk_size >= 1 (and None) and every order in which the workers
\* finish, the returned list is as long as items and its i-th element is
\* func of the i-th item.
C30_MapKeepsOrder ==
    pm_pc = "returned" =>
        /\ DOMAIN pm_results = 0..(Len(pm_items) - 1)
        /\ \A i \in DOMAIN pm_results : pm_results[i] = MapFunc(pm_items[i + 1])

\* C30 happens: a list cut into more chunks than there are workers has been
\* returned, and a chunk was finished before one submitted earlier
C30_Witness ==
    /\ pm_pc = "returned"
    /\ Cardinality(DOMAIN pm_futures) > max_workers
    /\ pm_overtaken

=============================================================================
